---------------------------- MODULE Spec2Model ----------------------------
(***************************************************************************)
(* gitfs: a read-only go-billy filesystem over a git repository.           *)
(*                                                                         *)
(* A Go string is a sequence of one-character strings, so that             *)
(* strings.Split, strings.Join and filepath.Join/Clean are computed on the *)
(* characters.  A FilePath is the sequence of its segments (pkg/path.go).  *)
(***************************************************************************)
EXTENDS Integers, Sequences, FiniteSets, TLC

(* ------------------------------ bounds -------------------------------- *)
\* longest request string handed to a path-taking read operation
MaxReqLen == 2
\* longest request string handed to Chroot and to the mutators
MaxShortLen == 1
\* longest file name whose handle is followed into reads and seeks
MaxOpenLen == 1
\* longest rendered root (in characters) a chrooted view is followed into
MaxRootLen == 1
\* longest rendered base path the path-algebra walk continues from
MaxPathLen == 3
\* most components in a request string of the path-algebra walk
MaxPathComps == 3
\* largest byte count asked of one Read
MaxRead == 2
\* largest seek offset asked of one Seek
MaxSeek == 1
\* largest read position a handle is followed to
MaxPos == 2
\* largest raw git mode decoded (all of uint16)
MaxRawMode == 65535
\* largest inode id handed to an operation of the inode table
MaxInodeId == 9
\* largest ReadDir destination buffer, in units of the dirent alignment
MaxDstWords == 10
\* largest offset handed to ReadDir and ReadFile of the inode table
MaxOffset == 5
\* largest number of the filesystem call of a build the backend is down for
MaxDown == 6
\* largest inode id handed to an operation that runs beside another one
MaxConcId == 4
\* longest line of ls-tree output parsed
MaxLineLen == 7

(* ------------------------------ strings ------------------------------- *)
Alphabet == {"/", ".", "r", "t"}

SeparatorString == "/"

Strings(n) == UNION {[1..k -> Alphabet] : k \in 0..n}

DOT == <<".">>

DOTDOT == <<".", ".">>

Last(s) == s[Len(s)]

Front(s) == SubSeq(s, 1, Len(s) - 1)

Min(a, b) == IF a < b THEN a ELSE b

RECURSIVE SplitFrom(_, _, _)
SplitFrom(s, i, cur) ==
    IF i > Len(s) THEN <<cur>>
    ELSE IF s[i] = SeparatorString
         THEN <<cur>> \o SplitFrom(s, i + 1, <<>>)
         ELSE SplitFrom(s, i + 1, Append(cur, s[i]))

\* strings.Split(request, SeparatorString)
Split(s) == SplitFrom(s, 1, <<>>)

RECURSIVE StringsJoin(_)
\* strings.Join(parts, SeparatorString)
StringsJoin(parts) ==
    IF Len(parts) = 0 THEN <<>>
    ELSE IF Len(parts) = 1 THEN parts[1]
    ELSE parts[1] \o <<SeparatorString>> \o StringsJoin(Tail(parts))

RECURSIVE CleanParts(_, _)
CleanParts(out, parts) ==
    IF parts = <<>> THEN out
    ELSE LET part == Head(parts) IN
         IF part = <<>> \/ part = DOT THEN CleanParts(out, Tail(parts))
         ELSE IF part = DOTDOT
              THEN IF Len(out) > 0 /\ Last(out) # DOTDOT
                   THEN CleanParts(Front(out), Tail(parts))
                   ELSE CleanParts(Append(out, part), Tail(parts))
              ELSE CleanParts(Append(out, part), Tail(parts))

\* filepath.Join(".", s): filepath.Clean of the relative path "./" + s
JoinDot(s) ==
    LET out == CleanParts(<<>>, Split(s)) IN
    IF out = <<>> THEN DOT ELSE StringsJoin(out)

RECURSIVE TrimSlashes(_)
TrimSlashes(s) ==
    IF Len(s) > 0 /\ Last(s) = SeparatorString THEN TrimSlashes(Front(s)) ELSE s

\* filepath.Base(path)
Base(s) ==
    IF s = <<>> THEN DOT
    ELSE LET t == TrimSlashes(s) IN
         IF t = <<>> THEN <<SeparatorString>> ELSE Last(Split(t))

(* ----------------------------- pkg/path.go ---------------------------- *)
ErrNil == "nil"

ErrEscapesChroot == "ErrEscapesChroot"

RootGitPath == <<>>

IsRoot(p) == Len(p) = 0

\* Parent that drops the first segment instead of the last
ParentDropsFirst(p) == IF IsRoot(p) THEN <<>> ELSE Tail(p)

Parent(p) == IF IsRoot(p) THEN <<>> ELSE Front(p)

RECURSIVE ResolveParts(_, _)
ResolveParts(scratch, requestParts) ==
    IF requestParts = <<>> THEN [err |-> ErrNil, Path |-> scratch]
    ELSE LET path == Head(requestParts) IN
         IF path = DOTDOT
         THEN IF Len(scratch) = 0
              THEN [err |-> ErrEscapesChroot, Path |-> <<>>]
              ELSE ResolveParts(Front(scratch), Tail(requestParts))
         ELSE IF path = DOT
              THEN ResolveParts(scratch, Tail(requestParts))
              ELSE ResolveParts(Append(scratch, path), Tail(requestParts))

\* Resolve that stays at the root instead of failing
ResolveClamped(p, request) ==
    LET res == ResolveParts(p, Split(request)) IN
    IF res.err # ErrNil THEN [err |-> ErrNil, Path |-> <<>>] ELSE res

Resolve(p, request) == ResolveParts(p, Split(request))

\* FilePath.String(): the root-relative rendering, "." for the root
RootRelativePath(p) == JoinDot(StringsJoin(p))

(* ------------------------- pkg/gitism file modes ---------------------- *)
RECURSIVE BitAnd(_, _)
BitAnd(a, b) ==
    IF a = 0 \/ b = 0 THEN 0
    ELSE (a % 2) * (b % 2) + 2 * BitAnd(a \div 2, b \div 2)

gitPermsMask == 511

gitDirectoryMask == 16384

gitSymlinkMask == 40960

gitLinkMask == 57344

RegularFile == "RegularFile"

Directory == "Directory"

Symlink == "Symlink"

\* NewFileMode that looks at the directory pattern before the symlink patterns
NewFileModeDirectoryFirst(gitMode) ==
    IF BitAnd(gitMode, gitDirectoryMask) = gitDirectoryMask
    THEN [Type |-> Directory, Perms |-> 292]
    ELSE IF BitAnd(gitMode, gitSymlinkMask) = gitSymlinkMask
            \/ BitAnd(gitMode, gitLinkMask) = gitLinkMask
         THEN [Type |-> Symlink, Perms |-> BitAnd(gitMode, gitPermsMask)]
         ELSE [Type |-> RegularFile, Perms |-> BitAnd(gitMode, gitPermsMask)]

NewFileMode(gitMode) ==
    IF BitAnd(gitMode, gitSymlinkMask) = gitSymlinkMask
       \/ BitAnd(gitMode, gitLinkMask) = gitLinkMask
    THEN [Type |-> Symlink, Perms |-> BitAnd(gitMode, gitPermsMask)]
    ELSE IF BitAnd(gitMode, gitDirectoryMask) = gitDirectoryMask
         THEN [Type |-> Directory, Perms |-> 292]
         ELSE [Type |-> RegularFile, Perms |-> BitAnd(gitMode, gitPermsMask)]

(* --------------------- the repository behind the Git ------------------ *)
\* The content of testdata (playbook: real.txt, symlink.txt, executable.sh,
\* test/nested.txt, test/escaping.txt) with one- and two-letter names:
\*   r = real.txt, rr = symlink.txt -> r, t = test/, tt = executable.sh,
\*   t/r = nested.txt, t/t = escaping.txt -> ../r
\* Entries are in the order git ls-tree prints them.  mode is the octal mode
\* column as a number, size the size column as text, segs the segments of the
\* path column.
MasterTree ==
    << [mode |-> 33188, object |-> "blob", hash |-> "h_real",
        size |-> <<"2">>, segs |-> <<<<"r">>>>],
       [mode |-> 40960, object |-> "blob", hash |-> "h_symlink",
        size |-> <<"1">>, segs |-> <<<<"r", "r">>>>],
       [mode |-> 16384, object |-> "tree", hash |-> "h_test",
        size |-> <<"-">>, segs |-> <<<<"t">>>>],
       [mode |-> 33261, object |-> "blob", hash |-> "h_exec",
        size |-> <<"1">>, segs |-> <<<<"t", "t">>>>],
       [mode |-> 33188, object |-> "blob", hash |-> "h_nested",
        size |-> <<"1">>, segs |-> <<<<"t">>, <<"r">>>>],
       [mode |-> 40960, object |-> "blob", hash |-> "h_escaping",
        size |-> <<"4">>, segs |-> <<<<"t">>, <<"t">>>>] >>

\* a second branch, with another content
DevTree ==
    << [mode |-> 33188, object |-> "blob", hash |-> "h_nested",
        size |-> <<"1">>, segs |-> <<<<"r">>>>] >>

Branches == {"master", "dev"}

Blobs ==
    [h \in {"h_real", "h_symlink", "h_exec", "h_nested", "h_escaping"} |->
        CASE h = "h_real" -> <<"t", "r">>
          [] h = "h_symlink" -> <<"r">>
          [] h = "h_exec" -> <<"t">>
          [] h = "h_nested" -> <<"r">>
          [] h = "h_escaping" -> <<".", ".", "/", "r">>]

\* the trees of the repository by branch
InitialRepo == [b \in Branches |-> IF b = "master" THEN MasterTree ELSE DevTree]

\* the segments git matches a path argument by: empty and "." dropped
PathSpec(treePath) == CleanParts(<<>>, Split(treePath))

EntriesAt(tree, segs) ==
    SelectSeq(tree, LAMBDA e : e.segs = segs)

ChildrenOf(tree, segs) ==
    SelectSeq(tree, LAMBDA e : /\ Len(e.segs) = Len(segs) + 1
                               /\ SubSeq(e.segs, 1, Len(segs)) = segs)

\* the lines `git ls-tree --long <treeLike> <treePath>` prints: the entry named
\* by treePath, or the entries of the tree it names when treePath ends with
\* the separator or names the top level; nothing for an unknown revision
LsTreeOutput(r, treeLike, treePath) ==
    IF treeLike \notin DOMAIN r THEN <<>>
    ELSE LET tree == r[treeLike]
             segs == PathSpec(treePath)
         IN IF segs = <<>> THEN ChildrenOf(tree, <<>>)
            ELSE IF DOTDOT \in {segs[i] : i \in 1..Len(segs)} THEN <<>>
            ELSE IF Last(treePath) = SeparatorString
                 THEN IF \E i \in 1..Len(tree) :
                            tree[i].segs = segs /\ tree[i].object = "tree"
                      THEN ChildrenOf(tree, segs)
                      ELSE <<>>
                 ELSE EntriesAt(tree, segs)

(* ------------------------------ pkg/git.go ---------------------------- *)
ErrStart == "ErrBackendUnavailable"

ErrNoTreeLikeSpecified == "ErrNoTreeLikeSpecified"

ErrMultipleRefsSpecified == "ErrMultipleRefsSpecified"

NoReference == [Commit |-> "", Branch |-> "", Tag |-> ""]

BranchReference(b) == [Commit |-> "", Branch |-> b, Tag |-> ""]

\* GitReference.treeLike(): "" stands for a nil pointer
treeLike(ref) ==
    LET set == {k \in {"Branch", "Commit", "Tag"} : ref[k] # ""} IN
    IF Cardinality(set) > 1 THEN [err |-> ErrMultipleRefsSpecified, val |-> ""]
    ELSE IF set = {} THEN [err |-> ErrNoTreeLikeSpecified, val |-> ""]
    ELSE [err |-> ErrNil, val |-> ref[CHOOSE k \in set : TRUE]]

ListTreeEntry(e) ==
    [Mode |-> NewFileMode(e.mode), Object |-> e.object, Hash |-> e.hash,
     Size |-> e.size, Path |-> StringsJoin(e.segs)]

\* cliGit.ListTree: the parsed entries handed to the handler, or the error
\* of a process that could not be started (up = FALSE)
ListTree(r, gitPath, up) ==
    LET tl == treeLike(gitPath.Reference) IN
    IF tl.err # ErrNil THEN [err |-> tl.err, entries |-> <<>>]
    ELSE IF ~up THEN [err |-> ErrStart, entries |-> <<>>]
    ELSE [err |-> ErrNil,
          entries |-> LET out == LsTreeOutput(r, tl.val, gitPath.TreePath)
                     IN [i \in 1..Len(out) |-> ListTreeEntry(out[i])]]

\* cliGit.ReadBlob: the standard output of `git cat-file blob <hash>`, which
\* is empty when hash names no blob (the exit status is not looked at)
ReadBlob(hash, up) ==
    IF ~up THEN [err |-> ErrStart, contents |-> <<>>]
    ELSE [err |-> ErrNil,
          contents |-> IF hash \in DOMAIN Blobs THEN Blobs[hash] ELSE <<>>]

(* ----------------------------- pkg/reffs.go --------------------------- *)
\* An operation takes, with its arguments, up: whether the git process of its
\* first and of its second backend call can be started.
ErrNotSupported == "billy.ErrNotSupported"

ErrReadOnly == "billy.ErrReadOnly"

ErrInvalid == "fs.ErrInvalid"

ErrNotExist == "fs.ErrNotExist"

ErrParsePath == "failed to parse path"

ErrSyntax == "strconv.ErrSyntax"

EOF == "io.EOF"

ErrSeek == "bytes.Reader.Seek: invalid"

ErrReadAt == "bytes.Reader.ReadAt: negative offset"

GitUnknown == "GitUnknown"

GitBlob == "GitBlob"

GitTree == "GitTree"

\* os.FileMode: the permission bits and the two type bits the code sets
FileMode(perm, dir, symlink) == [perm |-> perm, dir |-> dir, symlink |-> symlink]

\* the zero value gitFileInfo{}
ZeroFileInfo ==
    [mode |-> FileMode(0, FALSE, FALSE), Type |-> GitUnknown, Hash |-> "",
     path |-> <<>>, size |-> 0]

Name(info) == Base(info.path)

IsDir(info) == info.mode.dir

Digits == <<"0", "1", "2", "3", "4", "5", "6", "7", "8", "9">>

DigitValue(c) == (CHOOSE i \in 1..10 : Digits[i] = c) - 1

RECURSIVE ParseDigits(_, _)
ParseDigits(text, acc) ==
    IF text = <<>> THEN acc
    ELSE ParseDigits(Tail(text), 10 * acc + DigitValue(Head(text)))

\* strconv.ParseUint(text, 10, 32)
ParseUint(text) ==
    IF text = <<>> \/ \E i \in 1..Len(text) : \A j \in 1..10 : Digits[j] # text[i]
    THEN [err |-> ErrSyntax, val |-> 0]
    ELSE [err |-> ErrNil, val |-> ParseDigits(text, 0)]

\* the handler of lsTree: one ListTreeEntry to one gitFileInfo
ToFileInfo(entry) ==
    LET parsed == IF entry.Size = <<"-">> THEN [err |-> ErrNil, val |-> 0]
                  ELSE ParseUint(entry.Size)
    IN [err |-> parsed.err,
        file |-> [mode |-> FileMode(entry.Mode.Perms,
                                    entry.Mode.Type = Directory,
                                    entry.Mode.Type = Symlink),
                  Type |-> IF entry.Object = "blob" THEN GitBlob
                           ELSE IF entry.Object = "tree" THEN GitTree
                           ELSE GitUnknown,
                  Hash |-> entry.Hash,
                  path |-> entry.Path,
                  size |-> parsed.val]]

ListTreeCall(gitPath) ==
    [call |-> "ListTree", Reference |-> gitPath.Reference, TreePath |-> gitPath.TreePath]

ReadBlobCall(hash) == [call |-> "ReadBlob", Hash |-> hash]

\* lsTree: the files handed to handler in order, the error ListTree returns
\* when the listing or the size of an entry fails, and the backend call made
lsTree(r, s, path, children, up) ==
    LET relativePath == RootRelativePath(path)
                            \o (IF children THEN <<SeparatorString>> ELSE <<>>)
        gitPath == [Reference |-> BranchReference("master"), TreePath |-> relativePath]
        \* the handler runs on each entry until one fails
        Handled(listed, infos) ==
            LET bad == {i \in 1..Len(infos) : infos[i].err # ErrNil}
                stop == IF bad = {} THEN Len(infos) + 1
                        ELSE CHOOSE i \in bad : \A j \in bad : i <= j
            IN [err |-> IF listed.err # ErrNil THEN listed.err
                        ELSE IF bad # {} THEN infos[stop].err ELSE ErrNil,
                files |-> [i \in 1..(stop - 1) |-> infos[i].file],
                calls |-> <<ListTreeCall(gitPath)>>]
        Listed(listed) ==
            Handled(listed, [i \in 1..Len(listed.entries) |-> ToFileInfo(listed.entries[i])])
    IN Listed(ListTree(r, gitPath, up))

lsFile(r, s, path, up) ==
    LET Handled(listed) ==
            LET seen == Len(listed.files) > 0
                \* the handler rejects a second file with fs.ErrInvalid
                err == IF listed.err # ErrNil THEN listed.err
                       ELSE IF Len(listed.files) > 1 THEN ErrInvalid ELSE ErrNil
            IN IF err # ErrNil
               THEN [err |-> ErrNil, info |-> ZeroFileInfo, calls |-> listed.calls]
               ELSE IF ~seen
                    THEN [err |-> ErrNotExist, info |-> ZeroFileInfo, calls |-> listed.calls]
                    ELSE [err |-> ErrNil, info |-> listed.files[1], calls |-> listed.calls]
    IN Handled(lsTree(r, s, path, FALSE, up))

NoValue == [kind |-> "none"]

Failure(err, calls) == [err |-> err, val |-> NoValue, calls |-> calls]

NewReferenceFileSystem(reference) == [reference |-> reference, root |-> RootGitPath]

\* openFile that reads the blob and leaves the contents of the gitFile unset
openFileNoContents(s, filename, fileInfo, up) ==
    LET Opened(blob, calls) ==
            IF blob.err # ErrNil THEN Failure(blob.err, calls)
            ELSE [err |-> ErrNil,
                  val |-> [kind |-> "file", name |-> filename, info |-> fileInfo,
                           contents |-> <<>>, pos |-> 0],
                  calls |-> calls]
    IN Opened(ReadBlob(fileInfo.Hash, up), <<ReadBlobCall(fileInfo.Hash)>>)

\* openFile: a gitFile over the whole blob, its reader at position 0
openFile(s, filename, fileInfo, up) ==
    LET Opened(blob, calls) ==
            IF blob.err # ErrNil THEN Failure(blob.err, calls)
            ELSE [err |-> ErrNil,
                  val |-> [kind |-> "file", name |-> filename, info |-> fileInfo,
                           contents |-> blob.contents, pos |-> 0],
                  calls |-> calls]
    IN Opened(ReadBlob(fileInfo.Hash, up), <<ReadBlobCall(fileInfo.Hash)>>)

WithCalls(calls, res) == [res EXCEPT !.calls = calls \o @]

Open(r, s, filename, up) ==
    LET Found(found) ==
            IF found.err # ErrNil THEN Failure(found.err, found.calls)
            ELSE WithCalls(found.calls, openFile(s, filename, found.info, up[2]))
        At(path) ==
            IF path.err # ErrNil THEN Failure(ErrInvalid, <<>>)
            ELSE Found(lsFile(r, s, path.Path, up[1]))
    IN At(Resolve(s.root, filename))

O_RDONLY == 0

O_RDWR_CREATE == 66

\* OpenFile that does not look at flag
OpenFileAnyFlag(r, s, filename, flag, perm, up) ==
    LET Found(found) ==
            IF found.err # ErrNil THEN Failure(found.err, found.calls)
            ELSE IF perm # found.info.mode THEN Failure(ErrReadOnly, found.calls)
            ELSE WithCalls(found.calls, openFile(s, filename, found.info, up[2]))
        At(path) ==
            IF path.err # ErrNil THEN Failure(ErrInvalid, <<>>)
            ELSE Found(lsFile(r, s, path.Path, up[1]))
    IN At(Resolve(s.root, filename))

OpenFile(r, s, filename, flag, perm, up) ==
    LET Found(found) ==
            IF found.err # ErrNil THEN Failure(found.err, found.calls)
            ELSE IF perm # found.info.mode THEN Failure(ErrReadOnly, found.calls)
            ELSE WithCalls(found.calls, openFile(s, filename, found.info, up[2]))
        At(path) ==
            IF path.err # ErrNil THEN Failure(ErrInvalid, <<>>)
            ELSE IF flag # O_RDONLY THEN Failure(ErrReadOnly, <<>>)
            ELSE Found(lsFile(r, s, path.Path, up[1]))
    IN At(Resolve(s.root, filename))

Stat(r, s, filename, up) ==
    LET Found(found) ==
            IF found.err # ErrNil THEN Failure(found.err, found.calls)
            ELSE [err |-> ErrNil, val |-> [kind |-> "info", info |-> found.info],
                  calls |-> found.calls]
        At(path) ==
            IF path.err # ErrNil THEN Failure(ErrParsePath, <<>>)
            ELSE IF IsRoot(path.Path)
                 THEN [err |-> ErrNil,
                       val |-> [kind |-> "info",
                                info |-> [mode |-> FileMode(365, TRUE, FALSE), Type |-> GitTree,
                                          Hash |-> "", path |-> filename, size |-> 0]],
                       calls |-> <<>>]
                 ELSE Found(lsFile(r, s, path.Path, up[1]))
    IN At(Resolve(s.root, filename))

Lstat(r, s, filename, up) == Stat(r, s, filename, up)

\* ReadDir that lists the children without looking at what the path denotes
ReadDirUnchecked(r, s, path, up) ==
    LET Children(listed) ==
            [err |-> listed.err,
             val |-> [kind |-> "files", files |-> listed.files],
             calls |-> listed.calls]
        At(gitPath) ==
            IF gitPath.err # ErrNil THEN Failure(ErrParsePath, <<>>)
            ELSE Children(lsTree(r, s, gitPath.Path, TRUE, up[1]))
    IN At(Resolve(s.root, path))

ReadDir(r, s, path, up) ==
    LET Children(found, listed) ==
            [err |-> listed.err,
             val |-> [kind |-> "files", files |-> listed.files],
             calls |-> found.calls \o listed.calls]
        Found(gitPath, found) ==
            IF found.err # ErrNil THEN Failure(found.err, found.calls)
            ELSE IF ~IsRoot(gitPath.Path) /\ ~IsDir(found.info)
                 THEN Failure(ErrInvalid, found.calls)
                 ELSE Children(found,
                               lsTree(r, s, gitPath.Path, TRUE,
                                      IF IsRoot(gitPath.Path) THEN up[1] ELSE up[2]))
        At(gitPath) ==
            IF gitPath.err # ErrNil THEN Failure(ErrParsePath, <<>>)
            ELSE Found(gitPath,
                       IF IsRoot(gitPath.Path)
                       THEN [err |-> ErrNil, info |-> ZeroFileInfo, calls |-> <<>>]
                       ELSE lsFile(r, s, gitPath.Path, up[1]))
    IN At(Resolve(s.root, path))

Root(s) == RootRelativePath(s.root)

Chroot(s, path) ==
    LET At(gitPath) ==
            IF gitPath.err # ErrNil THEN Failure(ErrParsePath, <<>>)
            ELSE [err |-> ErrNil,
                  val |-> [kind |-> "fs",
                           fs |-> [reference |-> NoReference, root |-> gitPath.Path]],
                  calls |-> <<>>]
    IN At(Resolve(s.root, path))

Readlink(r, s, link, up) ==
    LET Real(realGitPath, calls) ==
            IF realGitPath.err # ErrNil THEN Failure(realGitPath.err, calls)
            ELSE [err |-> ErrNil,
                  val |-> [kind |-> "string",
                           string |-> RootRelativePath(realGitPath.Path)],
                  calls |-> calls]
        Content(gitPath, blob, calls) ==
            IF blob.err # ErrNil THEN Failure(blob.err, calls)
            ELSE Real(Resolve(Parent(gitPath.Path), blob.contents), calls)
        Found(gitPath, found) ==
            IF found.err # ErrNil THEN Failure(found.err, found.calls)
            ELSE Content(gitPath, ReadBlob(found.info.Hash, up[2]),
                         found.calls \o <<ReadBlobCall(found.info.Hash)>>)
        At(gitPath) ==
            IF gitPath.err # ErrNil THEN Failure(ErrParsePath, <<>>)
            ELSE Found(gitPath, lsFile(r, s, gitPath.Path, up[1]))
    IN At(Resolve(s.root, link))

ReadCapability == "ReadCapability"

SeekCapability == "SeekCapability"

\* Capabilities of a filesystem that can be opened for reading and writing
CapabilitiesReadWrite(s) == {ReadCapability, SeekCapability, "ReadAndWriteCapability"}

Capabilities(s) == {ReadCapability, SeekCapability}

\* The mutators: each returns its error, and with it the repository the
\* backend holds after the call, which none of them touches.
ReadOnly(r) == [err |-> ErrReadOnly, val |-> NoValue, calls |-> <<>>, repo |-> r]

Create(r, s, filename) == ReadOnly(r)

Rename(r, s, oldpath, newpath) == ReadOnly(r)

\* Remove that deletes the entries named filename
RemoveDeletes(r, s, filename) ==
    [err |-> ErrNil, val |-> NoValue, calls |-> <<>>,
     repo |-> [b \in DOMAIN r |->
                  SelectSeq(r[b], LAMBDA e : StringsJoin(e.segs) # filename)]]

Remove(r, s, filename) == ReadOnly(r)

TempFile(r, s, dir, prefix) == ReadOnly(r)

MkdirAll(r, s, filename, perm) == ReadOnly(r)

SymlinkTo(r, s, target, link) == ReadOnly(r)

Chmod(r, s, name, mode) == ReadOnly(r)

Lchown(r, s, name, uid, gid) == ReadOnly(r)

Chown(r, s, name, uid, gid) == ReadOnly(r)

Chtimes(r, s, name, atime, mtime) == ReadOnly(r)

(* ------------------------- gitFile (open handle) ---------------------- *)
\* A gitFile f is [name, info, contents, pos]; pos is the position of its
\* bytes.Reader.  Each method returns its results and the handle afterwards.
NotSupported(f, n) ==
    [err |-> ErrNotSupported, val |-> [kind |-> "n", n |-> n], file |-> f]

Write(f, p) == NotSupported(f, 0)

Lock(f) == NotSupported(f, 0)

Unlock(f) == NotSupported(f, 0)

Truncate(f, size) == NotSupported(f, 0)

Close(f) == [err |-> ErrNil, val |-> NoValue, file |-> f]

\* gitFile.Read into a buffer of n bytes: bytes.Reader.Read
Read(f, n) ==
    IF f.pos >= Len(f.contents)
    THEN [err |-> EOF, val |-> [kind |-> "bytes", bytes |-> <<>>], file |-> f]
    ELSE LET m == Min(n, Len(f.contents) - f.pos) IN
         [err |-> ErrNil,
          val |-> [kind |-> "bytes", bytes |-> SubSeq(f.contents, f.pos + 1, f.pos + m)],
          file |-> [f EXCEPT !.pos = f.pos + m]]

\* gitFile.ReadAt into a buffer of n bytes: bytes.Reader.ReadAt
ReadAt(f, n, off) ==
    IF off < 0
    THEN [err |-> ErrReadAt, val |-> [kind |-> "bytes", bytes |-> <<>>], file |-> f]
    ELSE IF off >= Len(f.contents)
    THEN [err |-> EOF, val |-> [kind |-> "bytes", bytes |-> <<>>], file |-> f]
    ELSE LET m == Min(n, Len(f.contents) - off) IN
         [err |-> IF m < n THEN EOF ELSE ErrNil,
          val |-> [kind |-> "bytes", bytes |-> SubSeq(f.contents, off + 1, off + m)],
          file |-> f]

SeekStart == 0

SeekCurrent == 1

SeekEnd == 2

\* gitFile.Seek: bytes.Reader.Seek
Seek(f, offset, whence) ==
    LET abs == IF whence = SeekStart THEN offset
               ELSE IF whence = SeekCurrent THEN f.pos + offset
               ELSE Len(f.contents) + offset
    IN IF whence \notin {SeekStart, SeekCurrent, SeekEnd} \/ abs < 0
       THEN [err |-> ErrSeek, val |-> [kind |-> "n", n |-> 0], file |-> f]
       ELSE [err |-> ErrNil, val |-> [kind |-> "n", n |-> abs],
             file |-> [f EXCEPT !.pos = abs]]

(* ---------------------------- state machine --------------------------- *)
VARIABLES
    repo,     \* the trees of the git repository, by branch
    fs,       \* the ReferenceFileSystem the caller holds
    pc,       \* "idle", "done" (a call has returned), "file" (a handle is
              \* open), "fdone" (a method of the handle has returned)
    op,       \* the last call: name, arguments, results, backend calls made
    handle,   \* the gitFile the caller holds
    stream,   \* the bytes sequential Reads have returned since the handle was opened
    inodes    \* billyFuse.inodes: the inode table, by id (empty before NewBillyFuse)

vars == <<repo, fs, pc, op, handle, stream, inodes>>

\* the empty inode table
NoInodes == <<>>

NoOp == [name |-> "none"]

NoArgs == [none |-> TRUE]

Requests == Strings(MaxReqLen)

ShortRequests == Strings(MaxShortLen)

Ups == {<<TRUE, TRUE>>, <<TRUE, FALSE>>, <<FALSE, TRUE>>, <<FALSE, FALSE>>}

Ups1 == {<<TRUE, TRUE>>, <<FALSE, TRUE>>}

\* the permission arguments of OpenFile: 0644 and 0700
OpenPerms == {FileMode(420, FALSE, FALSE), FileMode(448, FALSE, FALSE)}

OpenFlags == {O_RDONLY, O_RDWR_CREATE}

Init ==
    /\ repo = InitialRepo
    /\ \E b \in Branches : fs = NewReferenceFileSystem(BranchReference(b))
    /\ pc = "idle"
    /\ op = NoOp
    /\ handle = NoValue
    /\ stream = [seeked |-> FALSE, data |-> <<>>]
    /\ inodes = NoInodes

\* a call on the filesystem returns
Returns(name, args, res) ==
    /\ pc = "idle"
    /\ pc' = "done"
    /\ op' = [name |-> name, args |-> args, err |-> res.err, val |-> res.val,
              calls |-> res.calls]
    /\ UNCHANGED <<fs, handle, stream, inodes>>

DoStat ==
    \E filename \in Requests, up \in Ups1 :
        /\ Returns("Stat", [filename |-> filename, up |-> up], Stat(repo, fs, filename, up))
        /\ UNCHANGED repo

DoLstat ==
    \E filename \in ShortRequests, up \in Ups1 :
        /\ Returns("Lstat", [filename |-> filename, up |-> up], Lstat(repo, fs, filename, up))
        /\ UNCHANGED repo

DoOpen ==
    \E filename \in Requests, up \in Ups :
        /\ Returns("Open", [filename |-> filename, up |-> up], Open(repo, fs, filename, up))
        /\ UNCHANGED repo

DoOpenFile ==
    \E filename \in Requests, flag \in OpenFlags, perm \in OpenPerms :
      \E up \in IF flag = O_RDONLY THEN Ups ELSE {<<TRUE, TRUE>>} :
        /\ Returns("OpenFile",
                   [filename |-> filename, flag |-> flag, perm |-> perm, up |-> up],
                   OpenFile(repo, fs, filename, flag, perm, up))
        /\ UNCHANGED repo

DoReadDir ==
    \E path \in Requests, up \in Ups :
        /\ Returns("ReadDir", [filename |-> path, up |-> up], ReadDir(repo, fs, path, up))
        /\ UNCHANGED repo

DoReadlink ==
    \E link \in Requests, up \in Ups :
        /\ Returns("Readlink", [filename |-> link, up |-> up], Readlink(repo, fs, link, up))
        /\ UNCHANGED repo

DoChroot ==
    \E path \in ShortRequests :
        /\ Returns("Chroot", [filename |-> path], Chroot(fs, path))
        /\ UNCHANGED repo

DoRoot ==
    /\ Returns("Root", NoArgs,
               [err |-> ErrNil, val |-> [kind |-> "string", string |-> Root(fs)],
                calls |-> <<>>])
    /\ UNCHANGED repo

DoCapabilities ==
    /\ Returns("Capabilities", NoArgs,
               [err |-> ErrNil, val |-> [kind |-> "caps", caps |-> Capabilities(fs)],
                calls |-> <<>>])
    /\ UNCHANGED repo

\* a mutator returns
Mutates(name, filename, res) ==
    /\ Returns(name, [filename |-> filename], res)
    /\ repo' = res.repo

DoCreate == \E filename \in ShortRequests : Mutates("Create", filename, Create(repo, fs, filename))

DoRename ==
    \E oldpath \in ShortRequests :
        Mutates("Rename", oldpath, Rename(repo, fs, oldpath, <<"t", "r">>))

DoRemove == \E filename \in ShortRequests : Mutates("Remove", filename, Remove(repo, fs, filename))

DoTempFile ==
    \E dir \in ShortRequests : Mutates("TempFile", dir, TempFile(repo, fs, dir, <<"t">>))

DoMkdirAll ==
    \E filename \in ShortRequests :
        Mutates("MkdirAll", filename, MkdirAll(repo, fs, filename, FileMode(511, FALSE, FALSE)))

DoSymlink ==
    \E link \in ShortRequests : Mutates("Symlink", link, SymlinkTo(repo, fs, <<"r">>, link))

DoChmod ==
    \E name \in ShortRequests :
        Mutates("Chmod", name, Chmod(repo, fs, name, FileMode(511, FALSE, FALSE)))

DoLchown == \E name \in ShortRequests : Mutates("Lchown", name, Lchown(repo, fs, name, 0, 0))

DoChown == \E name \in ShortRequests : Mutates("Chown", name, Chown(repo, fs, name, 0, 0))

DoChtimes == \E name \in ShortRequests : Mutates("Chtimes", name, Chtimes(repo, fs, name, 0, 0))

\* the caller drops the result of the last call
Forget ==
    /\ pc \in {"done", "fdone"}
    /\ pc' = IF pc = "done" THEN "idle" ELSE "file"
    /\ op' = NoOp
    /\ UNCHANGED <<repo, fs, handle, stream, inodes>>

\* the caller goes on with the view Chroot returned
EnterChroot ==
    /\ pc = "done"
    /\ op.name = "Chroot"
    /\ op.err = ErrNil
    /\ Len(StringsJoin(op.val.fs.root)) <= MaxRootLen
    /\ fs' = op.val.fs
    /\ pc' = "idle"
    /\ op' = NoOp
    /\ UNCHANGED <<repo, handle, stream, inodes>>

\* the caller goes on with the file Open or OpenFile returned
UseFile ==
    /\ pc = "done"
    /\ op.name \in {"Open", "OpenFile"}
    /\ op.err = ErrNil
    /\ Len(op.args.filename) <= MaxOpenLen
    /\ handle' = op.val
    /\ stream' = [seeked |-> FALSE, data |-> <<>>]
    /\ pc' = "file"
    /\ op' = NoOp
    /\ UNCHANGED <<repo, fs, inodes>>

\* a method of the open handle returns
FileReturns(name, args, res) ==
    /\ pc = "file"
    /\ pc' = "fdone"
    /\ op' = [name |-> name, args |-> args, err |-> res.err, val |-> res.val,
              pos0 |-> handle.pos]
    /\ handle' = res.file
    /\ UNCHANGED <<repo, fs, inodes>>

FileRead ==
    \E n \in 0..MaxRead :
        /\ FileReturns("Read", [n |-> n], Read(handle, n))
        /\ stream' = IF stream.seeked THEN stream
                     ELSE [stream EXCEPT !.data = @ \o Read(handle, n).val.bytes]

FileReadAt ==
    \E n \in 0..MaxRead, off \in (0 - 1)..MaxSeek :
        /\ FileReturns("ReadAt", [n |-> n, off |-> off], ReadAt(handle, n, off))
        /\ UNCHANGED stream

FileSeek ==
    \E offset \in (0 - 1)..MaxSeek, whence \in 0..3 :
        /\ pc = "file"
        /\ Seek(handle, offset, whence).file.pos <= MaxPos
        /\ FileReturns("Seek", [offset |-> offset, whence |-> whence],
                       Seek(handle, offset, whence))
        /\ stream' = [seeked |-> TRUE, data |-> <<>>]

FileWrite ==
    /\ FileReturns("Write", [n |-> 1], Write(handle, <<"r">>))
    /\ UNCHANGED stream

FileLock ==
    /\ FileReturns("Lock", NoArgs, Lock(handle))
    /\ UNCHANGED stream

FileUnlock ==
    /\ FileReturns("Unlock", NoArgs, Unlock(handle))
    /\ UNCHANGED stream

FileTruncate ==
    /\ FileReturns("Truncate", [n |-> 0], Truncate(handle, 0))
    /\ UNCHANGED stream

FileClose ==
    /\ pc = "file"
    /\ Close(handle).err = ErrNil
    /\ pc' = "idle"
    /\ op' = NoOp
    /\ handle' = NoValue
    /\ stream' = [seeked |-> FALSE, data |-> <<>>]
    /\ UNCHANGED <<repo, fs, inodes>>

Next ==
    \/ DoStat \/ DoLstat \/ DoOpen \/ DoOpenFile \/ DoReadDir \/ DoReadlink
    \/ DoChroot \/ DoRoot \/ DoCapabilities
    \/ DoCreate \/ DoRename \/ DoRemove \/ DoTempFile \/ DoMkdirAll \/ DoSymlink
    \/ DoChmod \/ DoLchown \/ DoChown \/ DoChtimes
    \/ Forget \/ EnterChroot \/ UseFile
    \/ FileRead \/ FileReadAt \/ FileSeek \/ FileWrite \/ FileLock \/ FileUnlock
    \/ FileTruncate \/ FileClose

Spec == Init /\ [][Next]_vars

TypeOK == pc \in {"idle", "done", "file", "fdone"}

(* ------------------- the path algebra on its own ---------------------- *)
\* A walk from the root path: the caller resolves a request against, or
\* takes the parent of, the path it holds, and may go on from the result.

\* the components requests are made of: empty, ".", ".." and two names
PathComponents == {<<>>, DOT, DOTDOT, <<"r">>, <<"t">>}

\* the request strings of up to MaxPathComps components joined by separators
PathRequests ==
    {StringsJoin(cs) : cs \in UNION {[1..k -> PathComponents] : k \in 1..MaxPathComps}}

Holding(p) == [name |-> "holds", val |-> [kind |-> "path", Path |-> p]]

InitPath ==
    /\ repo = InitialRepo
    /\ fs = NewReferenceFileSystem(BranchReference("master"))
    /\ pc = "path"
    /\ op = Holding(RootGitPath)
    /\ handle = NoValue
    /\ stream = [seeked |-> FALSE, data |-> <<>>]
    /\ inodes = NoInodes

PathResolve ==
    \E request \in PathRequests :
        /\ pc = "path"
        /\ pc' = "pdone"
        /\ op' = [name |-> "Resolve",
                  args |-> [base |-> op.val.Path, request |-> request],
                  err |-> Resolve(op.val.Path, request).err,
                  val |-> [kind |-> "path", Path |-> Resolve(op.val.Path, request).Path]]
        /\ UNCHANGED <<repo, fs, handle, stream, inodes>>

PathParent ==
    /\ pc = "path"
    /\ pc' = "pdone"
    /\ op' = [name |-> "Parent", args |-> [base |-> op.val.Path], err |-> ErrNil,
              val |-> [kind |-> "path", Path |-> Parent(op.val.Path)]]
    /\ UNCHANGED <<repo, fs, handle, stream, inodes>>

\* the caller goes on from the path returned
PathAdopt ==
    /\ pc = "pdone"
    /\ op.err = ErrNil
    /\ Len(StringsJoin(op.val.Path)) <= MaxPathLen
    /\ pc' = "path"
    /\ op' = Holding(op.val.Path)
    /\ UNCHANGED <<repo, fs, handle, stream, inodes>>

\* the caller goes on from the path it held
PathDrop ==
    /\ pc = "pdone"
    /\ pc' = "path"
    /\ op' = Holding(op.args.base)
    /\ UNCHANGED <<repo, fs, handle, stream, inodes>>

NextPath == PathResolve \/ PathParent \/ PathAdopt \/ PathDrop

SpecPath == InitPath /\ [][NextPath]_vars

(* ------------------------------- claims ------------------------------- *)
Returned(names) == pc = "done" /\ op.name \in names

ViewReads == {"Stat", "Lstat", "Open", "OpenFile", "ReadDir", "Readlink", "Chroot"}

IsPrefix(a, b) == Len(a) <= Len(b) /\ SubSeq(b, 1, Len(a)) = a

\* the backend path of a query lies in the subtree of the view's root
InsideRoot(call) ==
    call.call = "ListTree" => IsPrefix(PathSpec(RootRelativePath(fs.root)), PathSpec(call.TreePath))

\* C1: in a view chrooted below the repository root, a request whose ".."
\* components rise above the view's root fails, and no call on the view
\* queries the backend for a path outside the subtree of the view's root.
C1_ChrootConfined ==
    (Returned(ViewReads) /\ PathSpec(RootRelativePath(fs.root)) # <<>>) =>
        /\ Resolve(RootGitPath, op.args.filename).err = ErrEscapesChroot => op.err # ErrNil
        /\ \A i \in 1..Len(op.calls) : InsideRoot(op.calls[i])

RECURSIVE DotDots(_)
\* the request of k ".." components
DotDots(k) == IF k = 1 THEN DOTDOT ELSE DOTDOT \o <<SeparatorString>> \o DotDots(k - 1)

RECURSIVE LeftToRight(_, _)
\* a segment list processed from an empty path: "." skipped, ".." popping
\* one segment (<<"!">> when there is none), anything else pushed
LeftToRight(acc, segs) ==
    IF acc = <<"!">> \/ segs = <<>> THEN acc
    ELSE IF Head(segs) = DOT THEN LeftToRight(acc, Tail(segs))
    ELSE IF Head(segs) = DOTDOT
         THEN LeftToRight(IF acc = <<>> THEN <<"!">> ELSE Front(acc), Tail(segs))
         ELSE LeftToRight(Append(acc, Head(segs)), Tail(segs))

\* the components of a request string, by the positions of its separators
Components(request) ==
    LET cuts == {0, Len(request) + 1}
                \cup {i \in 1..Len(request) : request[i] = SeparatorString}
        starts == {i \in cuts : i <= Len(request)}
        NextCut(i) == CHOOSE j \in cuts : j > i /\ \A k \in cuts : k > i => j <= k
        Nth(n) == CHOOSE i \in starts : Cardinality({j \in starts : j < i}) = n - 1
    IN [n \in 1..Cardinality(starts) |-> SubSeq(request, Nth(n) + 1, NextCut(Nth(n)) - 1)]

\* C2: resolving k ".." components against p returns the first depth(p)-k
\* segments of p when k <= depth(p) and ErrEscapesChroot with no path when
\* k > depth(p); in general the result is the combined base and request
\* segments processed left to right, and "./r/t" from the root renders "r/t",
\* ".." from that renders "r".
C2_ResolveLeftToRight ==
    (pc = "pdone" /\ op.name = "Resolve") =>
        LET p == op.args.base
            request == op.args.request
            expected == LeftToRight(<<>>, p \o Components(request))
        IN /\ \A k \in 1..3 :
                request = DotDots(k) =>
                    IF k <= Len(p)
                    THEN op.err = ErrNil /\ op.val.Path = SubSeq(p, 1, Len(p) - k)
                    ELSE op.err = ErrEscapesChroot /\ op.val.Path = <<>>
           /\ IF expected = <<"!">>
              THEN op.err = ErrEscapesChroot /\ op.val.Path = <<>>
              ELSE op.err = ErrNil /\ op.val.Path = expected
           /\ (p = <<>> /\ request = <<".", "/", "r", "/", "t">>) =>
                  RootRelativePath(op.val.Path) = <<"r", "/", "t">>
           /\ (p = <<<<"r">>, <<"t">>>> /\ request = DOTDOT) =>
                  RootRelativePath(op.val.Path) = <<"r">>

\* two ".." components resolved against a path of two segments gave the root
C2_Witness ==
    /\ pc = "pdone" /\ op.name = "Resolve"
    /\ Len(op.args.base) = 2
    /\ op.args.request = DotDots(2)
    /\ op.err = ErrNil /\ op.val.Path = <<>>


FsMutators ==
    {"Create", "Remove", "Rename", "MkdirAll", "TempFile", "Symlink", "Chmod", "Chown",
     "Lchown", "Chtimes"}

FileMutators == {"Write", "Truncate", "Lock"}

BothUp == <<TRUE, TRUE>>

\* what the read operations of view s return for one path
Observe(r, s, filename) ==
    << Stat(r, s, filename, BothUp), ReadDir(r, s, filename, BothUp),
       Open(r, s, filename, BothUp), Readlink(r, s, filename, BothUp) >>

WriteOpen == Returned({"OpenFile"}) /\ op.args.flag # O_RDONLY

\* C4 as stated: OpenFile with a flag other than read-only fails with the
\* ReadOnly error for every filename.
C4_WriteOpenReadOnly == WriteOpen => op.err = ErrReadOnly

\* C4 amended: OpenFile with a flag other than read-only fails for every
\* filename without a backend call and creates nothing; the error is ReadOnly
\* when the filename resolves and Invalid when it escapes the root.
C4_WriteOpenFails ==
    WriteOpen =>
        /\ op.err = IF Resolve(fs.root, op.args.filename).err = ErrNil
                    THEN ErrReadOnly ELSE ErrInvalid
        /\ op.val = NoValue
        /\ op.calls = <<>>
        /\ repo = InitialRepo

\* a write-intent open of the existing file r has been refused
C4_Witness ==
    /\ WriteOpen
    /\ op.args.filename = <<"r">>
    /\ fs.root = <<>>
    /\ op.err = ErrReadOnly

WritableCapabilities ==
    {"WriteCapability", "ReadAndWriteCapability", "TruncateCapability", "LockCapability"}

\* C5: Capabilities of every view, chrooted or not, is exactly read and seek,
\* with none of the write, read-and-write, truncate and lock capabilities.
C5_ReadSeekOnly ==
    Returned({"Capabilities"}) =>
        /\ op.val.caps = {ReadCapability, SeekCapability}
        /\ op.val.caps \cap WritableCapabilities = {}

\* a view chrooted into t has reported its capabilities
C5_Witness ==
    /\ Returned({"Capabilities"})
    /\ fs.root = <<<<"t">>>>

\* the path a returned call resolved its filename to
Resolved == Resolve(fs.root, op.args.filename)

\* what the backend lists for that path at the branch the call queried
Listing ==
    LsTreeOutput(repo, treeLike(op.calls[1].Reference).val, RootRelativePath(Resolved.Path))

IsTreeEntry(e) == e.object = "tree"

IsSymlinkEntry(e) == e.object = "blob" /\ e.mode = 40960

IsRegularEntry(e) == e.object = "blob" /\ e.mode # 40960

\* the path denotes exactly one entry of the backend
DenotesOne ==
    /\ Resolved.err = ErrNil
    /\ Len(op.calls) > 0
    /\ Len(Listing) = 1

DenotesDirectory == (Resolved.err = ErrNil /\ IsRoot(Resolved.Path)) \/ (DenotesOne /\ IsTreeEntry(Listing[1]))

\* C6: Open fails whenever the resolved path denotes a directory, the root
\* included, and returns no handle for it (the backend answering).
C6_OpenDirectoryFails ==
    (Returned({"Open"}) /\ op.args.up = BothUp /\ DenotesDirectory) => (op.err # ErrNil /\ op.val = NoValue)

ReadOpen == Returned({"Open", "OpenFile"}) /\ (op.name = "OpenFile" => op.args.flag = O_RDONLY)

OpenedWhole(e) ==
    /\ op.err = ErrNil
    /\ op.val.contents = Blobs[e.hash]
    /\ op.val.pos = 0

\* C7 as stated: for a regular file Open and OpenFile(O_RDONLY, perm) succeed,
\* whatever perm is, with the bytes of the entry's blob.
C7_OpenSucceeds ==
    (ReadOpen /\ op.args.up = BothUp /\ (DenotesOne /\ IsRegularEntry(Listing[1]))) => OpenedWhole(Listing[1])

BlobOf(hash) == IF hash \in DOMAIN Blobs THEN Blobs[hash] ELSE <<>>

\* C7 amended: for a regular file Open succeeds, and OpenFile(O_RDONLY, perm)
\* succeeds when perm equals the mode of the entry and fails with ReadOnly
\* otherwise; the handle holds the bytes of the entry's blob, reading it to the
\* end returns exactly these, a Read advances the one read position by what it
\* returned, and a Seek returns the position it set: the offset from the
\* start, or the position before plus the offset.
C7_OpenReadSeek ==
    /\ (ReadOpen /\ op.args.up = BothUp /\ (DenotesOne /\ IsRegularEntry(Listing[1]))) =>
          LET e == Listing[1]
              mode == FileMode(e.mode % 512, FALSE, FALSE)
          IN IF op.name = "OpenFile" /\ op.args.perm # mode
             THEN op.err = ErrReadOnly /\ op.val = NoValue
             ELSE OpenedWhole(e)
    /\ pc \in {"file", "fdone"} => handle.contents = BlobOf(handle.info.Hash)
    /\ (pc = "fdone" /\ op.name = "Read") =>
          /\ op.err \in {ErrNil, EOF}
          /\ handle.pos = op.pos0 + Len(op.val.bytes)
          /\ op.val.bytes = SubSeq(handle.contents, op.pos0 + 1, handle.pos)
          /\ (op.err = EOF /\ ~stream.seeked) => stream.data = handle.contents
    /\ (pc = "fdone" /\ op.name = "Seek" /\ op.err = ErrNil) =>
          /\ op.val.n = handle.pos
          /\ op.args.whence = SeekStart => op.val.n = op.args.offset
          /\ op.args.whence = SeekCurrent => op.val.n = op.pos0 + op.args.offset

\* the handle of r was read to the end, then Seek(1, start) set position 1, and
\* Seek(1, current) has returned 2
C7_Witness ==
    /\ pc = "fdone" /\ op.name = "Seek"
    /\ handle.info.Hash = "h_real"
    /\ handle.contents = <<"t", "r">>
    /\ op.args = [offset |-> 1, whence |-> SeekCurrent]
    /\ op.pos0 = 1
    /\ op.val.n = 2

\* C8: Readlink of a symlink returns the content of its blob verbatim:
\* "../r" for the escaping link t/t, also in the view chrooted into t.
C8_ReadlinkVerbatim ==
    (Returned({"Readlink"}) /\ op.args.up = BothUp /\ (DenotesOne /\ IsSymlinkEntry(Listing[1]))) =>
        /\ op.err = ErrNil
        /\ op.val.string = Blobs[Listing[1].hash]

\* C9: Readlink fails whenever the resolved path denotes a regular file or a
\* directory (the backend answering).
C9_ReadlinkNotASymlink ==
    (Returned({"Readlink"}) /\ op.args.up = BothUp
     /\ ((DenotesOne /\ IsRegularEntry(Listing[1])) \/ DenotesDirectory)) =>
        op.err # ErrNil

\* C10: Stat of a path other than the root fails with NotExist when the
\* backend lists no entry for it and fails when the backend lists more than
\* one; in neither case does it return a record.
C10_StatNotFoundAmbiguous ==
    (Returned({"Stat"}) /\ Resolved.err = ErrNil /\ ~IsRoot(Resolved.Path) /\ op.args.up[1]) =>
        /\ Len(Listing) = 0 => (op.err = ErrNotExist /\ op.val = NoValue)
        /\ Len(Listing) > 1 => (op.err # ErrNil /\ op.val = NoValue)

\* the read operations that query the backend
BackendReads == {"Stat", "Lstat", "Open", "OpenFile", "ReadDir", "Readlink"}

\* a backend call of the returned operation could not be carried out
BackendFailed == \E i \in 1..Len(op.calls) : ~op.args.up[i]

\* C11: when a backend call fails during stat, open, readDir or readLink,
\* the operation returns that failure: never success, never NotFound or
\* NotADirectory in its place.
C11_BackendFailurePropagates ==
    (Returned(BackendReads) /\ BackendFailed) => op.err = ErrStart

\* the branch the last backend call of the returned operation queried
QueriedTree == repo[treeLike(op.calls[Len(op.calls)].Reference).val]

\* the immediate children the backend holds for the resolved path
ImmediateChildren == ChildrenOf(QueriedTree, PathSpec(RootRelativePath(Resolved.Path)))

\* the resolved path is not the root and the backend lists no entry, or one
\* entry that is not a tree, for it
DenotesNoDirectory ==
    /\ Resolved.err = ErrNil
    /\ ~IsRoot(Resolved.Path)
    /\ Len(op.calls) > 0
    /\ \/ Len(Listing) = 0
       \/ Len(Listing) = 1 /\ ~IsTreeEntry(Listing[1])

\* C12: ReadDir fails when the resolved path denotes a non-directory or does
\* not exist; when it denotes a directory (the root always does) it returns
\* one record per immediate child the backend lists, in order, and nothing
\* else ("." in a chrooted view included), the backend answering.
C12_ReadDirImmediateChildren ==
    (Returned({"ReadDir"}) /\ op.args.up = BothUp) =>
        /\ DenotesNoDirectory => (op.err # ErrNil /\ op.val = NoValue)
        /\ DenotesDirectory =>
              /\ op.err = ErrNil
              /\ op.val.kind = "files"
              /\ Len(op.val.files) = Len(ImmediateChildren)
              /\ \A i \in 1..Len(ImmediateChildren) :
                    /\ op.val.files[i].path = StringsJoin(ImmediateChildren[i].segs)
                    /\ op.val.files[i].Hash = ImmediateChildren[i].hash
              /\ \A i, j \in 1..Len(op.val.files) :
                    op.val.files[i].path = op.val.files[j].path => i = j

\* "." in the view chrooted into t listed the two children of t
C12_Witness ==
    /\ Returned({"ReadDir"}) /\ op.args.up = BothUp
    /\ fs.root = <<<<"t">>>>
    /\ op.args.filename = DOT
    /\ op.err = ErrNil
    /\ Len(op.val.files) = 2
    /\ op.val.files[1].path = <<"t", "/", "r">>

\* C13: Chroot of a view returns, without any backend call and whatever the
\* path denotes, a view whose root is the resolved path and whose reference
\* is the reference of the view it was called on.
C13_ChrootKeepsReference ==
    (Returned({"Chroot"}) /\ Resolved.err = ErrNil) =>
        /\ op.err = ErrNil
        /\ op.calls = <<>>
        /\ op.val.kind = "fs"
        /\ op.val.fs.root = Resolved.Path
        /\ op.val.fs.reference = fs.reference

(* ------------------- the mode decoding on its own --------------------- *)
\* A caller decodes one raw mode after another.
InitMode ==
    /\ repo = InitialRepo
    /\ fs = NewReferenceFileSystem(BranchReference("master"))
    /\ pc = "mode"
    /\ op = NoOp
    /\ handle = NoValue
    /\ stream = [seeked |-> FALSE, data |-> <<>>]
    /\ inodes = NoInodes

ModeDecode ==
    /\ pc = "mode"
    /\ \E gitMode \in 0..MaxRawMode :
        /\ pc' = "mdone"
        /\ op' = [name |-> "NewFileMode", args |-> [gitMode |-> gitMode], err |-> ErrNil,
                  val |-> [kind |-> "mode", mode |-> NewFileMode(gitMode)]]
        /\ UNCHANGED <<repo, fs, handle, stream, inodes>>

ModeForget ==
    /\ pc = "mdone"
    /\ pc' = "mode"
    /\ op' = NoOp
    /\ UNCHANGED <<repo, fs, handle, stream, inodes>>

NextMode == ModeDecode \/ ModeForget

SpecMode == InitMode /\ [][NextMode]_vars

\* bit k of the raw mode m is set
BitSet(m, k) == (m \div (2 ^ k)) % 2 = 1

Decoded == pc = "mdone" /\ op.name = "NewFileMode"

\* the kind and, for regular files, the permission bits the decoding order gives
DecodesInOrder(m, mode) ==
    IF BitSet(m, 15) /\ BitSet(m, 13) THEN mode.Type = Symlink
    ELSE IF BitSet(m, 14) THEN mode.Type = Directory
    ELSE mode.Type = RegularFile /\ mode.Perms = m % 512

C15_SymlinkPermsZero ==
    (Decoded /\ op.val.mode.Type = Symlink) => op.val.mode.Perms = 0

(* ------------------------------ pkg fuse ------------------------------ *)
EINVAL == "fuse.EINVAL"

ENOENT == "fuse.ENOENT"

EEXIST == "fuse.EEXIST"

ENOTDIR == "fuse.ENOTDIR"

EIO == "fuse.EIO"

ErrStatDirectory == "failed to stat directory"

ErrReadDirectory == "failed to read dir"

RootInodeID == 1

RECURSIVE DropDotDots(_)
\* a rooted path loses the ".." components that would rise above "/"
DropDotDots(parts) ==
    IF parts # <<>> /\ Head(parts) = DOTDOT THEN DropDotDots(Tail(parts)) ELSE parts

\* filepath.Clean(path)
Clean(path) ==
    IF path = <<>> THEN DOT
    ELSE LET Rendered(rooted, out) ==
                 IF rooted THEN <<SeparatorString>> \o StringsJoin(DropDotDots(out))
                 ELSE IF out = <<>> THEN DOT ELSE StringsJoin(out)
         IN Rendered(path[1] = SeparatorString, CleanParts(<<>>, Split(path)))

\* filepath.Join(a, b): empty elements ignored, the rest joined and cleaned
FilepathJoin(a, b) ==
    IF a = <<>> /\ b = <<>> THEN <<>>
    ELSE IF a = <<>> THEN Clean(b)
    ELSE IF b = <<>> THEN Clean(a)
    ELSE Clean(a \o <<SeparatorString>> \o b)

\* ReferenceFileSystem.Join
Join(a, b) == Clean(FilepathJoin(a, b))

\* createInode without node.Id = nextInode
NewInodeWithoutId(id, parentId, info) ==
    [Id |-> 0, ParentId |-> parentId, info |-> info, Children |-> <<>>]

\* createInode: a billyInode without children
NewInode(id, parentId, info) ==
    [Id |-> id, ParentId |-> parentId, info |-> info, Children |-> <<>>]

\* parentInode.Children = append(parentInode.Children, child), when the
\* table holds parent
AppendChild(table, parent, child) ==
    IF parent \in DOMAIN table
    THEN [table EXCEPT ![parent].Children = Append(@, child)]
    ELSE table

\* the backend answers the k-th filesystem call of the build unless k is in down
UpAt(down, k) == IF k \in down THEN <<FALSE, FALSE>> ELSE <<TRUE, TRUE>>

RECURSIVE AddFiles(_, _, _, _)
\* the loop of NewBillyFuse over the files of one directory: a directory is
\* queued, anything else gets an inode and becomes a child of the directory
AddFiles(st, directoryId, currentDirectory, files) ==
    IF files = <<>> THEN st
    ELSE AddFiles(
            IF IsDir(Head(files))
            THEN [st EXCEPT !.queue =
                     Append(@, [parentInodeId |-> directoryId,
                                path |-> FilepathJoin(currentDirectory, Name(Head(files)))])]
            ELSE [st EXCEPT !.inodes =
                     AppendChild(@ @@ (st.nextInode :>
                                        NewInode(st.nextInode, directoryId, Head(files))),
                                 directoryId, st.nextInode),
                            !.nextInode = @ + 1],
            directoryId, currentDirectory, Tail(files))

\* one turn of the loop over the queue that goes on after a failed ReadDir
\* as if the directory were empty
BuildStepListingOptional(r, s, down, st) ==
    LET next == Head(st.queue)
        Listed(directoryId, withDirectory, files) ==
            IF files.err # ErrNil
            THEN [err |-> ErrNil, st |-> withDirectory]
            ELSE [err |-> ErrNil,
                  st |-> AddFiles(withDirectory, directoryId, next.path,
                                  files.val.files)]
        Statted(fileInfo) ==
            IF fileInfo.err # ErrNil
            THEN [err |-> ErrStatDirectory, st |-> st]
            ELSE Listed(st.nextInode,
                        [st EXCEPT
                            !.queue = Tail(@),
                            !.nextInode = @ + 1,
                            !.ops = @ + 2,
                            !.inodes =
                                AppendChild(@ @@ (st.nextInode :>
                                                   NewInode(st.nextInode,
                                                            next.parentInodeId,
                                                            fileInfo.val.info)),
                                            next.parentInodeId, st.nextInode)],
                        ReadDir(r, s, next.path, UpAt(down, st.ops + 2)))
    IN Statted(Stat(r, s, next.path, UpAt(down, st.ops + 1)))

\* one turn of the loop of NewBillyFuse over the queue: st holds the inodes
\* made so far, nextInode, the queue and the number of filesystem calls made
BuildStep(r, s, down, st) ==
    LET next == Head(st.queue)
        Listed(directoryId, withDirectory, files) ==
            IF files.err # ErrNil
            THEN [err |-> ErrReadDirectory, st |-> st]
            ELSE [err |-> ErrNil,
                  st |-> AddFiles(withDirectory, directoryId, next.path,
                                  files.val.files)]
        Statted(fileInfo) ==
            IF fileInfo.err # ErrNil
            THEN [err |-> ErrStatDirectory, st |-> st]
            ELSE Listed(st.nextInode,
                        [st EXCEPT
                            !.queue = Tail(@),
                            !.nextInode = @ + 1,
                            !.ops = @ + 2,
                            !.inodes =
                                AppendChild(@ @@ (st.nextInode :>
                                                   NewInode(st.nextInode,
                                                            next.parentInodeId,
                                                            fileInfo.val.info)),
                                            next.parentInodeId, st.nextInode)],
                        ReadDir(r, s, next.path, UpAt(down, st.ops + 2)))
    IN Statted(Stat(r, s, next.path, UpAt(down, st.ops + 1)))

RECURSIVE BuildFrom(_, _, _, _)
\* the loop of NewBillyFuse over the queue, until the queue is empty or a
\* Stat or ReadDir failed
BuildFrom(r, s, down, st) ==
    IF st.queue = <<>> THEN [err |-> ErrNil, inodes |-> st.inodes]
    ELSE LET Stepped(res) ==
                 IF res.err # ErrNil THEN [err |-> res.err, inodes |-> NoInodes]
                 ELSE BuildFrom(r, s, down, res.st)
         IN Stepped(BuildStep(r, s, down, st))

\* the variables of NewBillyFuse before the loop over the queue
BuildStart ==
    [inodes |-> NoInodes, nextInode |-> RootInodeID,
     queue |-> <<[parentInodeId |-> 0, path |-> DOT]>>, ops |-> 0]

\* NewBillyFuse(fs): the inode table of the tree under the view s, or the
\* error of the first Stat or ReadDir that failed
NewBillyFuse(r, s, down) == BuildFrom(r, s, down, BuildStart)

\* a lookup in the inode table that found nothing
NoInode == [Id |-> 0]

\* billyFuse.getInode
getInode(table, id) ==
    IF id = 0 THEN [err |-> EINVAL, inode |-> NoInode]
    ELSE IF id \notin DOMAIN table THEN [err |-> ENOENT, inode |-> NoInode]
    ELSE [err |-> ErrNil, inode |-> table[id]]

\* findChildInode without the test that the parent is a directory
findChildInodeOfAny(table, parent, name) ==
    LET Scan(inode) ==
            LET named == {i \in 1..Len(inode.inode.Children) :
                             /\ getInode(table, inode.inode.Children[i]).err = ErrNil
                             /\ Name(getInode(table, inode.inode.Children[i]).inode.info) = name}
            IN IF named = {} THEN [err |-> ENOENT, id |-> 0]
               ELSE [err |-> ErrNil,
                     id |-> inode.inode.Children[CHOOSE i \in named : \A j \in named : i <= j]]
        Found(inode) ==
            IF inode.err # ErrNil THEN [err |-> EEXIST, id |-> 0]
            ELSE Scan(inode)
    IN Found(getInode(table, parent))

\* billyFuse.findChildInode: the first child of parent whose name is name
findChildInode(table, parent, name) ==
    LET Scan(inode) ==
            LET named == {i \in 1..Len(inode.inode.Children) :
                             /\ getInode(table, inode.inode.Children[i]).err = ErrNil
                             /\ Name(getInode(table, inode.inode.Children[i]).inode.info) = name}
            IN IF named = {} THEN [err |-> ENOENT, id |-> 0]
               ELSE [err |-> ErrNil,
                     id |-> inode.inode.Children[CHOOSE i \in named : \A j \in named : i <= j]]
        Found(inode) ==
            IF inode.err # ErrNil THEN [err |-> EEXIST, id |-> 0]
            ELSE IF ~IsDir(inode.inode.info) THEN [err |-> ENOTDIR, id |-> 0]
            ELSE Scan(inode)
    IN Found(getInode(table, parent))

ModTime == 0

\* infoToAttributes
infoToAttributes(info) ==
    [Size |-> info.size, Nlink |-> 1,
     Mode |-> IF info.mode.dir THEN FileMode(292, TRUE, FALSE) ELSE info.mode,
     Mtime |-> ModTime, Uid |-> 0, Gid |-> 0]

\* what a call on the inode table returns when it fails
FuseFailure(err) == [err |-> err, val |-> NoValue]

\* billyFuse.LookUpInode
LookUpInode(table, parent, name) ==
    LET Entry(childId, inode) ==
            IF inode.err # ErrNil THEN FuseFailure(ENOENT)
            ELSE [err |-> ErrNil,
                  val |-> [kind |-> "entry", Child |-> childId,
                           Attributes |-> infoToAttributes(inode.inode.info)]]
        Found(child) ==
            IF child.err # ErrNil THEN FuseFailure(child.err)
            ELSE Entry(child.id, getInode(table, child.id))
    IN Found(findChildInode(table, parent, name))

\* billyFuse.GetInodeAttributes
GetInodeAttributes(table, id) ==
    LET Found(inode) ==
            IF inode.err # ErrNil THEN FuseFailure(ENOENT)
            ELSE [err |-> ErrNil,
                  val |-> [kind |-> "attributes",
                           Attributes |-> infoToAttributes(inode.inode.info)]]
    IN Found(getInode(table, id))

direntSize == 24

direntAlignment == 8

\* fuseutil.WriteDirent: the bytes written for a Dirent into a buffer of n
\* bytes, 0 when it does not fit
WriteDirent(n, dirent) ==
    LET Written(totalLen) == IF totalLen > n THEN 0 ELSE totalLen
        padLen == IF Len(dirent.Name) % direntAlignment # 0
                  THEN direntAlignment - (Len(dirent.Name) % direntAlignment)
                  ELSE 0
    IN Written(direntSize + Len(dirent.Name) + padLen)

RECURSIVE WriteDirents(_, _, _)
\* the loop of ReadDir that fills Dst until an entry does not fit
WriteDirents(n, entries, written) ==
    IF entries = <<>> \/ WriteDirent(n - written.BytesRead, Head(entries)) = 0
    THEN written
    ELSE WriteDirents(n, Tail(entries),
                      [entries |-> Append(written.entries, Head(entries)),
                       BytesRead |-> written.BytesRead
                                      + WriteDirent(n - written.BytesRead, Head(entries))])

\* the Dirent of the i-th child of a directory
Dirent(table, children, i) ==
    [Offset |-> i, Inode |-> children[i],
     Name |-> Name(table[children[i]].info),
     Type |-> IF table[children[i]].info.mode.dir THEN "DT_Directory"
              ELSE IF table[children[i]].info.mode.symlink THEN "DT_Link"
              ELSE "DT_File"]

\* ReadDir without entries = entries[op.Offset:]: every call lists from the start
FuseReadDirFromStart(table, id, offset, n) ==
    LET Listed(children) ==
            IF \E i \in 1..Len(children) : getInode(table, children[i]).err # ErrNil
            THEN FuseFailure(EIO)
            ELSE IF offset > Len(children) THEN FuseFailure(EIO)
            ELSE [err |-> ErrNil,
                  val |-> [kind |-> "dirents"]
                          @@ WriteDirents(n,
                                          [i \in 1..Len(children) |->
                                              Dirent(table, children, i)],
                                          [entries |-> <<>>, BytesRead |-> 0])]
        Found(inode) ==
            IF inode.err # ErrNil THEN FuseFailure(ENOENT)
            ELSE IF ~IsDir(inode.inode.info) THEN FuseFailure(ENOTDIR)
            ELSE Listed(inode.inode.Children)
    IN Found(getInode(table, id))

\* billyFuse.ReadDir with op.Offset = offset and len(op.Dst) = n
FuseReadDir(table, id, offset, n) ==
    LET Listed(children) ==
            IF \E i \in 1..Len(children) : getInode(table, children[i]).err # ErrNil
            THEN FuseFailure(EIO)
            ELSE IF offset > Len(children) THEN FuseFailure(EIO)
            ELSE [err |-> ErrNil,
                  val |-> [kind |-> "dirents"]
                          @@ WriteDirents(n,
                                          [i \in 1..(Len(children) - offset) |->
                                              Dirent(table, children, offset + i)],
                                          [entries |-> <<>>, BytesRead |-> 0])]
        Found(inode) ==
            IF inode.err # ErrNil THEN FuseFailure(ENOENT)
            ELSE IF ~IsDir(inode.inode.info) THEN FuseFailure(ENOTDIR)
            ELSE Listed(inode.inode.Children)
    IN Found(getInode(table, id))

RECURSIVE PathFrom(_, _, _, _)
\* the loop of getBillyPath: up the parents until the root inode (fuel stops
\* the walk where the loop of the code would never end: parents in a cycle)
PathFrom(table, inode, path, fuel) ==
    IF inode.Id = RootInodeID THEN [err |-> ErrNil, path |-> Join(DOT, path)]
    ELSE IF fuel = 0 THEN [err |-> "diverges", path |-> <<>>]
    ELSE LET Up(parent, joined) ==
                 IF parent.err # ErrNil THEN [err |-> parent.err, path |-> <<>>]
                 ELSE PathFrom(table, parent.inode, joined, fuel - 1)
         IN Up(getInode(table, inode.ParentId), Join(Name(inode.info), path))

\* getBillyPath without the loop over the parents: the name of the inode alone
getBillyPathNameOnly(table, inodeId) ==
    LET Found(inode) ==
            IF inode.err # ErrNil THEN [err |-> EIO, path |-> <<>>]
            ELSE IF inode.inode.Id = RootInodeID
            THEN [err |-> ErrNil, path |-> Join(DOT, <<>>)]
            ELSE [err |-> ErrNil,
                  path |-> Join(DOT, Join(Name(inode.inode.info), <<>>))]
    IN Found(getInode(table, inodeId))

\* billyFuse.getBillyPath
getBillyPath(table, inodeId) ==
    LET Found(inode) ==
            IF inode.err # ErrNil THEN [err |-> EIO, path |-> <<>>]
            ELSE PathFrom(table, inode.inode, <<>>, Cardinality(DOMAIN table))
    IN Found(getInode(table, inodeId))

\* ReadFile that returns every error of ReadAt, io.EOF included
ReadFileEOF(r, s, table, id, n, offset, up) ==
    LET Read0(bytes) ==
            IF bytes.err # ErrNil THEN FuseFailure(bytes.err)
            ELSE [err |-> ErrNil,
                  val |-> [kind |-> "bytes", bytes |-> bytes.val.bytes,
                           BytesRead |-> Len(bytes.val.bytes)]]
        Opened(file) ==
            IF file.err # ErrNil THEN FuseFailure(EIO)
            ELSE Read0(ReadAt(file.val, n, offset))
        At(path) ==
            IF path.err # ErrNil THEN FuseFailure(path.err)
            ELSE Opened(Open(r, s, path.path, up))
    IN At(getBillyPath(table, id))

\* billyFuse.ReadFile with len(op.Dst) = n and op.Offset = offset
ReadFile(r, s, table, id, n, offset, up) ==
    LET Read0(bytes) ==
            IF bytes.err # ErrNil /\ bytes.err # EOF THEN FuseFailure(bytes.err)
            ELSE [err |-> ErrNil,
                  val |-> [kind |-> "bytes", bytes |-> bytes.val.bytes,
                           BytesRead |-> Len(bytes.val.bytes)]]
        Opened(file) ==
            IF file.err # ErrNil THEN FuseFailure(EIO)
            ELSE Read0(ReadAt(file.val, n, offset))
        At(path) ==
            IF path.err # ErrNil THEN FuseFailure(path.err)
            ELSE Opened(Open(r, s, path.path, up))
    IN At(getBillyPath(table, id))

\* billyFuse.StatFS
StatFS(table) == [err |-> ErrNil, val |-> NoValue]

(* ---------------------- the inode table in use ------------------------ *)
\* a name that does not fit the dirent of a short name (executable.sh)
LongName == <<"r", "r", "r", "r", "r", "r", "r", "r", "r">>

\* the content of testdata with a long file name and a directory in test/
FuseTree ==
    << [mode |-> 33188, object |-> "blob", hash |-> "h_real",
        size |-> <<"2">>, segs |-> <<<<"r">>>>],
       [mode |-> 33261, object |-> "blob", hash |-> "h_exec",
        size |-> <<"1">>, segs |-> <<LongName>>],
       [mode |-> 16384, object |-> "tree", hash |-> "h_test",
        size |-> <<"-">>, segs |-> <<<<"t">>>>],
       [mode |-> 33188, object |-> "blob", hash |-> "h_nested",
        size |-> <<"1">>, segs |-> <<<<"t">>, <<"r">>>>],
       [mode |-> 40960, object |-> "blob", hash |-> "h_escaping",
        size |-> <<"4">>, segs |-> <<<<"t">>, <<"t">>>>],
       [mode |-> 16384, object |-> "tree", hash |-> "h_deep",
        size |-> <<"-">>, segs |-> <<<<"t">>, <<"t", "t">>>>],
       [mode |-> 33188, object |-> "blob", hash |-> "h_real",
        size |-> <<"2">>, segs |-> <<<<"t">>, <<"t", "t">>, <<"r">>>>] >>

FuseRepos == {InitialRepo, [InitialRepo EXCEPT !["master"] = FuseTree]}

\* the views an inode table is built over: the repository and its test/
FuseViews ==
    {NewReferenceFileSystem(BranchReference("master")),
     [reference |-> NoReference, root |-> <<<<"t">>>>]}

InodeIds == 0..MaxInodeId

LookupNames == Strings(MaxReqLen) \cup {LongName}

DstSizes == {direntAlignment * k : k \in 0..MaxDstWords}

\* the state after NewBillyFuse(fs) returned a table, the backend answering
InitFuse ==
    /\ repo \in FuseRepos
    /\ fs \in FuseViews
    /\ NewBillyFuse(repo, fs, {}).err = ErrNil
    /\ inodes = NewBillyFuse(repo, fs, {}).inodes
    /\ pc = "mounted"
    /\ op = NoOp
    /\ handle = NoValue
    /\ stream = [seeked |-> FALSE, data |-> <<>>]

\* an operation of the inode table returns
FuseReturns(name, args, res) ==
    /\ pc = "mounted"
    /\ pc' = "replied"
    /\ op' = [name |-> name, args |-> args, err |-> res.err, val |-> res.val]
    /\ UNCHANGED <<repo, fs, handle, stream, inodes>>

FuseLookUpInode ==
    /\ pc = "mounted"
    /\ \E parent \in InodeIds, name \in LookupNames :
          FuseReturns("LookUpInode", [id |-> parent, name |-> name],
                      LookUpInode(inodes, parent, name))

FuseGetInodeAttributes ==
    /\ pc = "mounted"
    /\ \E id \in InodeIds :
          FuseReturns("GetInodeAttributes", [id |-> id], GetInodeAttributes(inodes, id))

FuseReadDirAt ==
    /\ pc = "mounted"
    /\ \E id \in InodeIds, offset \in 0..MaxOffset, n \in DstSizes :
          FuseReturns("ReadDir", [id |-> id, offset |-> offset, n |-> n],
                      FuseReadDir(inodes, id, offset, n))

FuseGetBillyPath ==
    /\ pc = "mounted"
    /\ \E id \in InodeIds :
          FuseReturns("getBillyPath", [id |-> id],
                      [err |-> getBillyPath(inodes, id).err,
                       val |-> [kind |-> "string",
                                string |-> getBillyPath(inodes, id).path]])

FuseReadFile ==
    /\ pc = "mounted"
    /\ \E id \in InodeIds, n \in 0..MaxRead, offset \in 0..MaxOffset, up \in Ups :
          FuseReturns("ReadFile", [id |-> id, n |-> n, offset |-> offset, up |-> up],
                      ReadFile(repo, fs, inodes, id, n, offset, up))

FuseStatFS ==
    /\ FuseReturns("StatFS", NoArgs, StatFS(inodes))

\* the caller drops the reply
FuseForget ==
    /\ pc = "replied"
    /\ pc' = "mounted"
    /\ op' = NoOp
    /\ UNCHANGED <<repo, fs, handle, stream, inodes>>


\* a caller opens a directory to list it through a buffer of n bytes
FuseOpenDir ==
    /\ pc = "mounted"
    /\ \E id \in InodeIds, n \in DstSizes :
          handle' = [kind |-> "dir", Inode |-> id, n |-> n, offset |-> 0,
                     entries |-> <<>>, calls |-> 0, done |-> FALSE, err |-> ErrNil]
    /\ pc' = "paging"
    /\ op' = NoOp
    /\ UNCHANGED <<repo, fs, stream, inodes>>

\* one ReadDir of the listing, resumed at the offset of the last entry returned
FusePage ==
    /\ pc = "paging"
    /\ ~handle.done
    /\ LET Paged(res) ==
               /\ op' = [name |-> "ReadDir",
                         args |-> [id |-> handle.Inode, offset |-> handle.offset,
                                   n |-> handle.n],
                         err |-> res.err, val |-> res.val]
               /\ handle' =
                     IF res.err # ErrNil
                     THEN [handle EXCEPT !.calls = @ + 1, !.done = TRUE, !.err = res.err]
                     ELSE IF res.val.entries = <<>>
                     THEN [handle EXCEPT !.calls = @ + 1, !.done = TRUE]
                     ELSE [handle EXCEPT
                              !.calls = @ + 1,
                              !.entries = @ \o res.val.entries,
                              !.offset = res.val.entries[Len(res.val.entries)].Offset]
       IN Paged(FuseReadDir(inodes, handle.Inode, handle.offset, handle.n))
    /\ UNCHANGED <<repo, fs, pc, stream, inodes>>

\* the caller closes the directory after the call that returned no entry
FuseReleaseDir ==
    /\ pc = "paging"
    /\ handle.done
    /\ pc' = "mounted"
    /\ op' = NoOp
    /\ handle' = NoValue
    /\ UNCHANGED <<repo, fs, stream, inodes>>

\* a caller starts resolving a path at the root inode
FuseWalkRoot ==
    /\ pc = "mounted"
    /\ pc' = "walking"
    /\ op' = NoOp
    /\ handle' = [kind |-> "walk", Inode |-> RootInodeID, names |-> <<>>]
    /\ UNCHANGED <<repo, fs, stream, inodes>>

\* one LookUpInode of the walk: a name found moves the walk to the child
FuseWalkName ==
    /\ pc = "walking"
    /\ \E name \in LookupNames :
          LET Looked(res) ==
                  /\ op' = [name |-> "LookUpInode",
                            args |-> [id |-> handle.Inode, name |-> name],
                            err |-> res.err, val |-> res.val]
                  /\ handle' =
                        IF res.err # ErrNil THEN handle
                        ELSE [handle EXCEPT !.Inode = res.val.Child,
                                            !.names = Append(@, name)]
          IN Looked(LookUpInode(inodes, handle.Inode, name))
    /\ UNCHANGED <<repo, fs, pc, stream, inodes>>

\* the caller is done with the path
FuseWalkDone ==
    /\ pc = "walking"
    /\ pc' = "mounted"
    /\ op' = NoOp
    /\ handle' = NoValue
    /\ UNCHANGED <<repo, fs, stream, inodes>>

NextFuse ==
    \/ FuseLookUpInode
    \/ FuseGetInodeAttributes
    \/ FuseReadDirAt
    \/ FuseGetBillyPath
    \/ FuseReadFile
    \/ FuseStatFS
    \/ FuseForget
    \/ FuseOpenDir
    \/ FusePage
    \/ FuseReleaseDir
    \/ FuseWalkRoot
    \/ FuseWalkName
    \/ FuseWalkDone

SpecFuse == InitFuse /\ [][NextFuse]_vars


(* ------------------------- claims C16 .. C20 -------------------------- *)
\* the inode a caller is listing page by page
ListedInode == getInode(inodes, handle.Inode)

\* a listing of a directory inode is under way
ListsDirectory ==
    /\ pc = "paging"
    /\ ListedInode.err = ErrNil
    /\ IsDir(ListedInode.inode.info)

ListedChildren == ListedInode.inode.Children

\* the bytes the i-th child of the listed directory takes in a buffer
EntryLen(i) ==
    WriteDirent(direntSize + direntAlignment
                  + Len(Dirent(inodes, ListedChildren, i).Name),
                Dirent(inodes, ListedChildren, i))

\* a buffer no listing of the directory fills
WholeDst ==
    Len(ListedChildren)
      * (direntSize + direntAlignment
           + Len(Dirent(inodes, ListedChildren,
                        CHOOSE i \in 1..Len(ListedChildren) :
                            \A j \in 1..Len(ListedChildren) :
                                EntryLen(j) <= EntryLen(i)).Name))

\* the entries of one call at offset 0 with a buffer nothing fills
OneCall ==
    IF ListedChildren = <<>> THEN <<>>
    ELSE FuseReadDir(inodes, handle.Inode, 0, WholeDst).val.entries

\* the pages so far are the start of the one call, after at most one call
\* per entry and one more; once a call returned no entry they are all of it
PagesAreOneCall ==
    /\ handle.err = ErrNil
    /\ handle.calls <= Len(OneCall) + 1
    /\ Len(handle.entries) <= Len(OneCall)
    /\ handle.entries = SubSeq(OneCall, 1, Len(handle.entries))
    /\ handle.done => handle.entries = OneCall

\* C16 as stated: for every directory inode and every buffer that holds at
\* least one entry of it, the pages of ReadDir, each resumed at the offset of
\* the last entry returned until a call returns no entry, are together the
\* entries of one call at offset 0 with an unlimited buffer, in order, none
\* skipped or repeated, and the paging ends.
C16_PagingHoldsOneEntry ==
    (ListsDirectory /\ \E i \in 1..Len(ListedChildren) : EntryLen(i) <= handle.n)
        => PagesAreOneCall

\* C16: for every directory inode and every buffer that holds each entry of
\* the directory alone, the pages of ReadDir, each resumed at the offset of
\* the last entry returned until a call returns no entry, are together the
\* entries of one call at offset 0 with an unlimited buffer, in order, none
\* skipped or repeated, and the paging ends after at most one call per entry
\* and one more.
C16_PagingHoldsEveryEntry ==
    (ListsDirectory /\ \A i \in 1..Len(ListedChildren) : EntryLen(i) <= handle.n)
        => PagesAreOneCall

\* three entries of different sizes listed in four calls of one entry each
C16_Witness ==
    /\ ListsDirectory
    /\ \A i \in 1..Len(ListedChildren) : EntryLen(i) <= handle.n
    /\ \E i, j \in 1..Len(ListedChildren) : EntryLen(i) < EntryLen(j)
    /\ handle.done
    /\ handle.calls = 4
    /\ Len(handle.entries) = 3
    /\ handle.entries = OneCall


\* the names a walk went along, joined by the separator ("." for none)
WalkedPath == IF handle.names = <<>> THEN DOT ELSE StringsJoin(handle.names)

\* the segments of a path of the table ("." has none)
PathSegments(path) == IF path = DOT THEN <<>> ELSE Split(path)

RECURSIVE WalkFrom(_, _, _)
\* successive lookups from inode id along names
WalkFrom(table, id, names) ==
    IF names = <<>> THEN [err |-> ErrNil, id |-> id]
    ELSE LET Looked(res) ==
                 IF res.err # ErrNil THEN [err |-> res.err, id |-> 0]
                 ELSE WalkFrom(table, res.val.Child, Tail(names))
         IN Looked(LookUpInode(table, id, Head(names)))

LookedUp == pc \in {"replied", "walking"} /\ op.name = "LookUpInode"

\* the parent inode of the lookup that returned
LookupParent == getInode(inodes, op.args.id)

\* the children of the parent of the lookup whose cached name is the name asked
NamedChildren ==
    {c \in DOMAIN inodes :
        /\ \E i \in 1..Len(LookupParent.inode.Children) :
              LookupParent.inode.Children[i] = c
        /\ Name(inodes[c].info) = op.args.name}

\* C18: LookUpInode(parent, name) on the built table returns the id of the
\* child of parent whose cached base name is name; it fails with ENOENT when
\* parent is a directory with no such child and with ENOTDIR when parent is a
\* file or symlink inode; it never returns an id that is not a child of
\* parent.
C18_LookupChildByName ==
    (LookedUp /\ LookupParent.err = ErrNil) =>
        /\ ~IsDir(LookupParent.inode.info) =>
              (op.err = ENOTDIR /\ op.val = NoValue)
        /\ (IsDir(LookupParent.inode.info) /\ NamedChildren = {}) =>
              (op.err = ENOENT /\ op.val = NoValue)
        /\ (IsDir(LookupParent.inode.info) /\ NamedChildren # {}) =>
              /\ op.err = ErrNil
              /\ NamedChildren = {op.val.Child}
              /\ op.val.Attributes = infoToAttributes(inodes[op.val.Child].info)
        /\ op.err = ErrNil =>
              /\ op.val.Child \in NamedChildren
              /\ inodes[op.val.Child].ParentId = op.args.id

\* the lookup of a name in a directory below the root returned its child
C18_Witness ==
    /\ LookedUp
    /\ op.args.id # RootInodeID
    /\ LookupParent.err = ErrNil
    /\ op.err = ErrNil
    /\ op.val.Child \in NamedChildren
    /\ \E c \in DOMAIN inodes : c # op.val.Child /\ inodes[c].ParentId = op.args.id


\* an operation of the table that takes an inode id returned
RepliedOnId ==
    /\ pc \in {"replied", "walking", "paging"}
    /\ op.name \in {"LookUpInode", "GetInodeAttributes", "ReadDir",
                    "getBillyPath", "ReadFile"}

\* the errors the operations of the table return for inode id
ErrorsOn(id) ==
    {LookUpInode(inodes, id, <<>>).err,
     GetInodeAttributes(inodes, id).err,
     FuseReadDir(inodes, id, 0, 0).err,
     getBillyPath(inodes, id).err,
     ReadFile(repo, fs, inodes, id, 0, 0, BothUp).err}

\* C19: LookUpInode, GetInodeAttributes, ReadDir, getBillyPath and ReadFile
\* called with an id that is 0 or not in the table fail, return no data, and
\* all fail with one and the same error.
C19_UnknownIdSameError ==
    (RepliedOnId /\ op.args.id \notin DOMAIN inodes) =>
        /\ op.err # ErrNil
        /\ op.val \in {NoValue, [kind |-> "string", string |-> <<>>]}
        /\ ErrorsOn(op.args.id) = {op.err}


\* a ReadFile on an inode of the table that is not a directory returned
ReadFileInode ==
    /\ pc = "replied"
    /\ op.name = "ReadFile"
    /\ op.args.id \in DOMAIN inodes
    /\ ~IsDir(inodes[op.args.id].info)

\* the blob of the inode ReadFile was called on
FileBlob == BlobOf(inodes[op.args.id].info.Hash)

\* C20: ReadFile on a file inode with a buffer of n bytes at offset returns,
\* the backend answering, the bytes of the file's blob from offset up to n of
\* them; when fewer than n remain (none at or beyond the size of the file) it
\* returns those, reports their count and succeeds; io.EOF is never its error.
C20_ReadFileShortRead ==
    ReadFileInode =>
        /\ op.err # EOF
        /\ op.args.up = BothUp =>
              /\ op.err = ErrNil
              /\ op.val.bytes =
                    SubSeq(FileBlob, op.args.offset + 1,
                           Min(op.args.offset + op.args.n, Len(FileBlob)))
              /\ op.val.BytesRead = Len(op.val.bytes)
              /\ op.val.BytesRead =
                    IF op.args.offset >= Len(FileBlob) THEN 0
                    ELSE Min(op.args.n, Len(FileBlob) - op.args.offset)

\* a read of two bytes at the last byte of a file returned that one byte
C20_Witness ==
    /\ ReadFileInode
    /\ op.args.up = BothUp
    /\ op.args.offset > 0
    /\ op.args.offset + op.args.n > Len(FileBlob)
    /\ op.err = ErrNil
    /\ op.val.BytesRead = 1
    /\ op.val.bytes = <<FileBlob[Len(FileBlob)]>>


(* ------------- operations of the inode table run concurrently ---------- *)
\* the goroutines the server runs operations on
Callers == {1, 2}

\* a goroutine that runs no operation
Idle == [name |-> "idle", args |-> NoArgs, step |-> 0, local |-> NoValue]

ConcIds == 0..MaxConcId

ConcNames == {<<"r">>, <<"t">>}

\* the operations a goroutine may be handed, before their first step
ConcCalls ==
    {[name |-> "LookUpInode", args |-> [id |-> id, name |-> name],
      step |-> 1, local |-> NoValue] : id \in ConcIds, name \in ConcNames}
    \cup {[name |-> "GetInodeAttributes", args |-> [id |-> id],
           step |-> 1, local |-> NoValue] : id \in ConcIds}
    \cup {[name |-> "ReadDir",
           args |-> [id |-> id, offset |-> offset, n |-> direntAlignment * MaxDstWords],
           step |-> 1, local |-> NoValue] : id \in ConcIds, offset \in 0..1}
    \cup {[name |-> "ReadFile",
           args |-> [id |-> id, n |-> 1, offset |-> offset, up |-> BothUp],
           step |-> 1, local |-> NoValue] : id \in ConcIds, offset \in 0..1}
    \cup {[name |-> "StatFS", args |-> NoArgs, step |-> 1, local |-> NoValue]}

\* the operation returns res: its last step is done
Finished(call, res) ==
    [call EXCEPT !.step = 0,
                 !.local = [kind |-> "reply", err |-> res.err, val |-> res.val]]

\* the operation keeps local in its variables and goes on to its next step
Proceeds(call, local) == [call EXCEPT !.step = @ + 1, !.local = local]

\* LookUpInode: findChildInode, then getInode(childId) and the entry
LookUpInodeStep(table, call) ==
    LET Found(child) ==
            IF child.err # ErrNil THEN Finished(call, FuseFailure(child.err))
            ELSE Proceeds(call, [kind |-> "id", id |-> child.id])
        Entry(inode) ==
            IF inode.err # ErrNil THEN Finished(call, FuseFailure(ENOENT))
            ELSE Finished(call,
                          [err |-> ErrNil,
                           val |-> [kind |-> "entry", Child |-> call.local.id,
                                    Attributes |-> infoToAttributes(inode.inode.info)]])
    IN IF call.step = 1
       THEN Found(findChildInode(table, call.args.id, call.args.name))
       ELSE Entry(getInode(table, call.local.id))

\* ReadDir: getInode(op.Inode), then the entries of its children and the writes
ReadDirStep(table, call) ==
    LET Found(inode) ==
            IF inode.err # ErrNil THEN Finished(call, FuseFailure(ENOENT))
            ELSE IF ~IsDir(inode.inode.info) THEN Finished(call, FuseFailure(ENOTDIR))
            ELSE Proceeds(call, [kind |-> "children", children |-> inode.inode.Children])
        Listed(children) ==
            IF \E i \in 1..Len(children) : getInode(table, children[i]).err # ErrNil
            THEN Finished(call, FuseFailure(EIO))
            ELSE IF call.args.offset > Len(children)
            THEN Finished(call, FuseFailure(EIO))
            ELSE Finished(call,
                          [err |-> ErrNil,
                           val |-> [kind |-> "dirents"]
                                   @@ WriteDirents(call.args.n,
                                         [i \in 1..(Len(children) - call.args.offset) |->
                                             Dirent(table, children, call.args.offset + i)],
                                         [entries |-> <<>>, BytesRead |-> 0])])
    IN IF call.step = 1 THEN Found(getInode(table, call.args.id))
       ELSE Listed(call.local.children)

\* ReadFile: getBillyPath, then fs.Open(path), then handle.ReadAt
ReadFileStep(r, s, table, call) ==
    LET At(path) ==
            IF path.err # ErrNil THEN Finished(call, FuseFailure(path.err))
            ELSE Proceeds(call, [kind |-> "string", string |-> path.path])
        Opened(file) ==
            IF file.err # ErrNil THEN Finished(call, FuseFailure(EIO))
            ELSE Proceeds(call, [kind |-> "file", file |-> file.val])
        Read0(bytes) ==
            IF bytes.err # ErrNil /\ bytes.err # EOF
            THEN Finished(call, FuseFailure(bytes.err))
            ELSE Finished(call,
                          [err |-> ErrNil,
                           val |-> [kind |-> "bytes", bytes |-> bytes.val.bytes,
                                    BytesRead |-> Len(bytes.val.bytes)]])
    IN IF call.step = 1 THEN At(getBillyPath(table, call.args.id))
       ELSE IF call.step = 2 THEN Opened(Open(r, s, call.local.string, call.args.up))
       ELSE Read0(ReadAt(call.local.file, call.args.n, call.args.offset))

\* the next step of an operation under way
FuseStep(r, s, table, call) ==
    CASE call.name = "LookUpInode" -> LookUpInodeStep(table, call)
      [] call.name = "GetInodeAttributes" ->
            Finished(call, GetInodeAttributes(table, call.args.id))
      [] call.name = "ReadDir" -> ReadDirStep(table, call)
      [] call.name = "ReadFile" -> ReadFileStep(r, s, table, call)
      [] call.name = "StatFS" -> Finished(call, StatFS(table))

\* every goroutine's variables are one set shared by all the goroutines
AdvanceSharedLocals(running, c, next) ==
    [k \in DOMAIN running |->
        IF k = c THEN next
        ELSE IF running[k].local.kind = next.local.kind
        THEN [running[k] EXCEPT !.local = next.local]
        ELSE running[k]]

\* goroutine c took a step: its variables are its own
Advance(running, c, next) == [running EXCEPT ![c] = next]

\* the state after NewBillyFuse(fs) returned a table to the server (stream
\* keeps a copy of the table as it was returned)
InitConc ==
    /\ repo = [InitialRepo EXCEPT !["master"] = FuseTree]
    /\ fs \in FuseViews
    /\ NewBillyFuse(repo, fs, {}).err = ErrNil
    /\ inodes = NewBillyFuse(repo, fs, {}).inodes
    /\ pc = "serving"
    /\ op = NoOp
    /\ handle = [c \in Callers |-> Idle]
    /\ stream = [kind |-> "built", inodes |-> NewBillyFuse(repo, fs, {}).inodes]

\* the server hands an operation to an idle goroutine
ConcBegin ==
    /\ pc = "serving"
    /\ \E c \in Callers, call \in ConcCalls :
          /\ handle[c] = Idle
          /\ handle' = [handle EXCEPT ![c] = call]
    /\ op' = NoOp
    /\ UNCHANGED <<repo, fs, pc, stream, inodes>>

\* a goroutine takes the next step of its operation
ConcStep ==
    /\ pc = "serving"
    /\ \E c \in Callers :
          /\ handle[c].step > 0
          /\ handle' = Advance(handle, c, FuseStep(repo, fs, inodes, handle[c]))
    /\ op' = NoOp
    /\ UNCHANGED <<repo, fs, pc, stream, inodes>>

\* an operation whose last step is done replies, and its goroutine is idle
ConcReply ==
    /\ pc = "serving"
    /\ \E c \in Callers :
          /\ handle[c].name # "idle"
          /\ handle[c].step = 0
          /\ op' = [name |-> handle[c].name, args |-> handle[c].args,
                    err |-> handle[c].local.err, val |-> handle[c].local.val]
          /\ handle' = [handle EXCEPT ![c] = Idle]
    /\ UNCHANGED <<repo, fs, pc, stream, inodes>>

NextConc ==
    \/ ConcBegin
    \/ ConcStep
    \/ ConcReply

SpecConc == InitConc /\ [][NextConc]_vars

\* what the operation that replied returns when it runs alone
Alone ==
    CASE op.name = "LookUpInode" -> LookUpInode(inodes, op.args.id, op.args.name)
      [] op.name = "GetInodeAttributes" -> GetInodeAttributes(inodes, op.args.id)
      [] op.name = "ReadDir" ->
            FuseReadDir(inodes, op.args.id, op.args.offset, op.args.n)
      [] op.name = "ReadFile" ->
            ReadFile(repo, fs, inodes, op.args.id, op.args.n, op.args.offset, op.args.up)
      [] op.name = "StatFS" -> StatFS(inodes)

\* the operation that replied, if any, replied what it replies alone
RepliedAsAlone == op # NoOp => (op.err = Alone.err /\ op.val = Alone.val)

\* C21: once NewBillyFuse has returned, under every interleaving of the steps
\* of LookUpInode, GetInodeAttributes, ReadDir, ReadFile and StatFS calls the
\* inode table stays the table that was built (ids, parent ids, child lists,
\* cached infos), and every call replies what it replies when run alone.
C21_ConcurrentReadsAgree ==
    pc = "serving" =>
        /\ inodes = stream.inodes
        /\ RepliedAsAlone

\* a LookUpInode replied an entry while a ReadFile of the other goroutine had
\* its path and had not opened it yet
C21_Witness ==
    /\ pc = "serving"
    /\ op # NoOp
    /\ op.name = "LookUpInode"
    /\ op.err = ErrNil
    /\ op.val = Alone.val
    /\ \E c \in Callers : handle[c].name = "ReadFile" /\ handle[c].step = 2


(* ------------------ one line of ls-tree output parsed ------------------ *)
\* the characters of a line: an octal digit, a digit that is not octal (both
\* also stand for the letters of the other fields), the space and the tab
LineAlphabet == {"1", "8", " ", "\t"}

Lines == UNION {[1..k -> LineAlphabet] : k \in 0..MaxLineLen}

ErrOctNotFound == "oct not found"

ErrHashNotFound == "hash not found"

ErrSizeNotFound == "size not found"

ErrRange == "strconv.ErrRange"

\* the runtime panic of a slice expression out of range
ErrPanic == "panic: slice bounds out of range"

\* strings.IndexByte(s, c), -1 when c is not in s
IndexByte(s, c) ==
    IF \E i \in 1..Len(s) : s[i] = c
    THEN (CHOOSE i \in 1..Len(s) : s[i] = c /\ \A j \in 1..(i - 1) : s[j] # c) - 1
    ELSE -1

\* strings.LastIndexByte(s, c)
LastIndexByte(s, c) ==
    IF \E i \in 1..Len(s) : s[i] = c
    THEN (CHOOSE i \in 1..Len(s) : s[i] = c /\ \A j \in (i + 1)..Len(s) : s[j] # c) - 1
    ELSE -1

IsSpace(c) == c \in {" ", "\t"}

\* strings.TrimSpace(s)
TrimSpace(s) ==
    IF \A i \in 1..Len(s) : IsSpace(s[i]) THEN <<>>
    ELSE SubSeq(s,
                CHOOSE i \in 1..Len(s) :
                    ~IsSpace(s[i]) /\ \A j \in 1..(i - 1) : IsSpace(s[j]),
                CHOOSE i \in 1..Len(s) :
                    ~IsSpace(s[i]) /\ \A j \in (i + 1)..Len(s) : IsSpace(s[j]))

RECURSIVE ParseOctalDigits(_, _)
ParseOctalDigits(text, acc) ==
    IF text = <<>> THEN acc
    ELSE ParseOctalDigits(Tail(text), 8 * acc + DigitValue(Head(text)))

\* strconv.ParseUint(text, 8, 16)
ParseUintOctal16(text) ==
    IF text = <<>> \/ \E i \in 1..Len(text) : \A j \in 1..8 : Digits[j] # text[i]
    THEN [err |-> ErrSyntax, val |-> 0]
    ELSE IF ParseOctalDigits(text, 0) > 65535 THEN [err |-> ErrRange, val |-> 65535]
    ELSE [err |-> ErrNil, val |-> ParseOctalDigits(text, 0)]

NoEntry == [kind |-> "none"]

\* newListTreeEntry(line); the slice line[:objectTypeTextEnd] is taken before
\* objectTypeTextEnd is compared with -1
newListTreeEntry(line) ==
    LET Built(modeNum, objectTypeText, hashText, sizeText, pathText) ==
            IF modeNum.err # ErrNil THEN [err |-> modeNum.err, entry |-> NoEntry]
            ELSE [err |-> ErrNil,
                  entry |-> [kind |-> "entry",
                             Mode |-> NewFileMode(modeNum.val),
                             Object |-> TrimSpace(objectTypeText),
                             Hash |-> TrimSpace(hashText),
                             Size |-> TrimSpace(sizeText),
                             Path |-> TrimSpace(pathText)]]
        AfterHash(modeText, objectTypeText, hashText, line3, sizeTextEnd) ==
            IF sizeTextEnd = -1 THEN [err |-> ErrSizeNotFound, entry |-> NoEntry]
            ELSE Built(ParseUintOctal16(modeText), objectTypeText, hashText,
                       SubSeq(line3, 1, sizeTextEnd),
                       SubSeq(line3, sizeTextEnd + 2, Len(line3)))
        AfterType(modeText, objectTypeText, line2, hashTextEnd) ==
            IF hashTextEnd = -1 THEN [err |-> ErrHashNotFound, entry |-> NoEntry]
            ELSE AfterHash(modeText, objectTypeText, SubSeq(line2, 1, hashTextEnd),
                           SubSeq(line2, hashTextEnd + 2, Len(line2)),
                           LastIndexByte(SubSeq(line2, hashTextEnd + 2, Len(line2)), "\t"))
        AfterMode(modeText, line1, objectTypeTextEnd) ==
            IF objectTypeTextEnd = -1 THEN [err |-> ErrPanic, entry |-> NoEntry]
            ELSE AfterType(modeText, SubSeq(line1, 1, objectTypeTextEnd),
                           SubSeq(line1, objectTypeTextEnd + 2, Len(line1)),
                           IndexByte(SubSeq(line1, objectTypeTextEnd + 2, Len(line1)), " "))
        Start(modeTextEnd) ==
            IF modeTextEnd = -1 THEN [err |-> ErrOctNotFound, entry |-> NoEntry]
            ELSE AfterMode(SubSeq(line, 1, modeTextEnd),
                           SubSeq(line, modeTextEnd + 2, Len(line)),
                           IndexByte(SubSeq(line, modeTextEnd + 2, Len(line)), " "))
    IN Start(IndexByte(line, " "))

\* A caller parses one line after another.
InitLine ==
    /\ repo = InitialRepo
    /\ fs = NewReferenceFileSystem(BranchReference("master"))
    /\ pc = "line"
    /\ op = NoOp
    /\ handle = NoValue
    /\ stream = [seeked |-> FALSE, data |-> <<>>]
    /\ inodes = NoInodes

LineParse ==
    /\ pc = "line"
    /\ \E line \in Lines :
        /\ pc' = "parsed"
        /\ op' = [name |-> "newListTreeEntry", args |-> [line |-> line],
                  err |-> newListTreeEntry(line).err,
                  val |-> newListTreeEntry(line).entry]
        /\ UNCHANGED <<repo, fs, handle, stream, inodes>>

LineForget ==
    /\ pc = "parsed"
    /\ pc' = "line"
    /\ op' = NoOp
    /\ UNCHANGED <<repo, fs, handle, stream, inodes>>

NextLine == LineParse \/ LineForget

SpecLine == InitLine /\ [][NextLine]_vars

\* the line is mode, type, hash, size and path with their separators: a
\* space after each of mode, type and hash, a tab between size and path
FieldsOf(line, a, b, c, d) ==
    /\ a < b /\ b < c /\ c < d
    /\ line[a] = " " /\ line[b] = " " /\ line[c] = " " /\ line[d] = "\t"
    /\ \A i \in 1..(c - 1) : i \notin {a, b} => line[i] # " "
    /\ \A i \in (d + 1)..Len(line) : line[i] # "\t"

\* C22: parsing one line of ls-tree output returns either an entry whose
\* mode, object kind, hash, size and path are the fields of the line, or, for
\* a malformed line (empty, too short, a separator missing, a mode that is
\* not octal), an error; it never panics.
C22_LineParsedOrError ==
    (pc = "parsed" /\ op.name = "newListTreeEntry") =>
        /\ op.err # ErrPanic
        /\ op.err = ErrNil =>
              \E a, b, c, d \in 1..Len(op.args.line) :
                  /\ FieldsOf(op.args.line, a, b, c, d)
                  /\ ParseUintOctal16(SubSeq(op.args.line, 1, a - 1)).err = ErrNil
                  /\ op.val.Mode =
                        NewFileMode(ParseUintOctal16(SubSeq(op.args.line, 1, a - 1)).val)
                  /\ op.val.Object = TrimSpace(SubSeq(op.args.line, a + 1, b - 1))
                  /\ op.val.Hash = TrimSpace(SubSeq(op.args.line, b + 1, c - 1))
                  /\ op.val.Size = TrimSpace(SubSeq(op.args.line, c + 1, d - 1))
                  /\ op.val.Path = TrimSpace(SubSeq(op.args.line, d + 1, Len(op.args.line)))
        /\ (~\E a, b, c, d \in 1..Len(op.args.line) : FieldsOf(op.args.line, a, b, c, d))
              => op.err # ErrNil


(* ------------------------- claims C23 .. C24 -------------------------- *)
RECURSIVE ParentTimes(_, _)
\* Parent applied k times from p
ParentTimes(p, k) == IF k = 0 THEN p ELSE ParentTimes(Parent(p), k - 1)

\* C23: Parent of a path that is not the root is the path without its last
\* segment, Parent of the root is the root, and Parent returns no error,
\* whereas Resolve of ".." at the root is ErrEscapesChroot; from any path,
\* Parent repeated reaches the root after as many steps as the path has
\* segments, not before, and stays there.
C23_ParentReachesRoot ==
    /\ (pc = "pdone" /\ op.name = "Parent") =>
          /\ op.err = ErrNil
          /\ op.val.Path = IF op.args.base = <<>> THEN <<>>
                           ELSE SubSeq(op.args.base, 1, Len(op.args.base) - 1)
          /\ \A k \in 0..(Len(op.args.base) + 1) :
                IsRoot(ParentTimes(op.args.base, k)) <=> k >= Len(op.args.base)
    /\ (pc = "pdone" /\ op.name = "Resolve"
          /\ op.args.base = <<>> /\ op.args.request = DOTDOT) =>
          op.err = ErrEscapesChroot

\* Parent of a path of two different segments returned its first segment
C23_Witness ==
    /\ pc = "pdone"
    /\ op.name = "Parent"
    /\ Len(op.args.base) = 2
    /\ op.args.base[1] # op.args.base[2]
    /\ op.val.Path = <<op.args.base[1]>>
    /\ IsRoot(ParentTimes(op.args.base, 2))


\* C24: every path returned by Resolve or Parent, in any sequence of them
\* from the root and for any request strings (leading, trailing or doubled
\* separators included), has only segments that are not empty, are not "."
\* or ".." and hold no separator.
C24_SegmentsWellFormed ==
    (pc = "pdone" /\ op.err = ErrNil) =>
        \A i \in 1..Len(op.val.Path) :
            /\ op.val.Path[i] # <<>>
            /\ op.val.Path[i] # DOT
            /\ op.val.Path[i] # DOTDOT
            /\ \A j \in 1..Len(op.val.Path[i]) : op.val.Path[i][j] # SeparatorString


(* ------------------------- claims C25, C30 ---------------------------- *)
\* the directory record Stat makes up for the root
SyntheticRoot(filename) ==
    [mode |-> FileMode(365, TRUE, FALSE), Type |-> GitTree, Hash |-> "",
     path |-> filename, size |-> 0]

\* C25: Stat returns the made-up directory record, without any backend call,
\* exactly when the resolved path is the root of the view: for "." in the
\* original view and in any chrooted view, and for no other resolved path.
C25_StatRootOfView ==
    (Returned({"Stat"}) /\ Resolved.err = ErrNil) =>
        (Resolved.Path = fs.root
            <=> /\ op.err = ErrNil
                /\ op.calls = <<>>
                /\ op.val = [kind |-> "info", info |-> SyntheticRoot(op.args.filename)])


\* C30: every listing a returned Stat, Lstat, Open, OpenFile, ReadDir,
\* Readlink or Chroot asked of the backend was asked at the reference of the
\* view it was called on, the reference the view was created with.
C30_ListingsAtViewReference ==
    Returned(ViewReads) =>
        \A i \in 1..Len(op.calls) :
            op.calls[i].call = "ListTree" => op.calls[i].Reference = fs.reference


(* ----------------------- the build of the inode table ------------------ *)
\* the filesystem calls of a build the backend is down for: none, or one
Downs == {{}} \cup {{k} : k \in 1..MaxDown}

\* the repositories a table is built of: testdata, testdata with a long name
\* and a deeper directory, and the single file of the other branch
BuildRepos == FuseRepos \cup {[InitialRepo EXCEPT !["master"] = DevTree]}

\* NewBillyFuse(fs) is called: handle holds its variables, stream the
\* directories taken off the queue so far
InitBuild ==
    /\ repo \in BuildRepos
    /\ fs \in FuseViews
    /\ \E down \in Downs :
          op = [name |-> "NewBillyFuse", args |-> [down |-> down],
                err |-> ErrNil, val |-> NoValue]
    /\ pc = "building"
    /\ handle = BuildStart
    /\ stream = [kind |-> "expanded", paths |-> <<>>]
    /\ inodes = NoInodes

\* the loop condition holds and the turn takes the front of the queue
TakeFront ==
    /\ pc = "building"
    /\ handle.queue # <<>>
    /\ stream' = [stream EXCEPT !.paths = Append(@, Head(handle.queue).path)]

\* one turn of the loop: the front of the queue is taken off and expanded, or
\* its Stat or ReadDir fails and NewBillyFuse returns the error and no table
BuildExpand ==
    /\ TakeFront
    /\ \E res \in {BuildStep(repo, fs, op.args.down, handle)} :
          IF res.err # ErrNil
          THEN /\ pc' = "built"
               /\ op' = [op EXCEPT !.err = res.err]
               /\ UNCHANGED handle
          ELSE /\ handle' = res.st
               /\ UNCHANGED <<pc, op>>
    /\ UNCHANGED <<repo, fs, inodes>>

\* the queue is empty: NewBillyFuse returns the table
BuildReturn ==
    /\ pc = "building"
    /\ handle.queue = <<>>
    /\ pc' = "built"
    /\ inodes' = handle.inodes
    /\ UNCHANGED <<repo, fs, op, handle, stream>>

NextBuild == BuildExpand \/ BuildReturn

SpecBuild == InitBuild /\ [][NextBuild]_vars

\* the build is not held up for ever
SpecBuildLive ==
    SpecBuild /\ WF_stream(TakeFront) /\ WF_vars(BuildReturn)

(* ------------------------- claims C26 .. C29 -------------------------- *)
\* C26: in the table NewBillyFuse builds the root has id 1, id 0 is never
\* assigned, every inode has its own id, and the ids are handed out in
\* increasing order without gaps: at every turn of the build and in the table
\* returned the ids are exactly 1..N, each inode under its own id.
C26_IdsAreOneToN ==
    /\ pc = "building" =>
          /\ DOMAIN handle.inodes = 1..(handle.nextInode - 1)
          /\ \A id \in DOMAIN handle.inodes : handle.inodes[id].Id = id
    /\ (pc = "built" /\ op.err = ErrNil) =>
          /\ DOMAIN inodes = 1..Cardinality(DOMAIN inodes)
          /\ 0 \notin DOMAIN inodes
          /\ RootInodeID \in DOMAIN inodes
          /\ RootInodeID = 1
          /\ inodes[RootInodeID].ParentId = 0
          /\ \A id \in DOMAIN inodes : inodes[id].Id = id
          /\ \A id \in DOMAIN inodes :
                \A i \in 1..Len(inodes[id].Children) : inodes[id].Children[i] > id

\* a table of eight inodes, the root first, was returned
C26_Witness ==
    /\ pc = "built"
    /\ op.err = ErrNil
    /\ DOMAIN inodes = 1..8
    /\ inodes[1].Id = 1
    /\ inodes[8].Id = 8


\* what the table says of inode id: its path, and whether it is a directory
\* or a symlink
NodeOfInode(id) ==
    [path |-> getBillyPath(inodes, id).path,
     dir |-> inodes[id].info.mode.dir,
     symlink |-> inodes[id].info.mode.symlink]

RECURSIVE NodesUnder(_, _)
\* the nodes nested ReadDir of the view lists under the directory at path,
\* the backend answering (fuel is the depth left to go down)
NodesUnder(path, fuel) ==
    LET Listed(files) ==
            IF files.err # ErrNil \/ fuel = 0 THEN {}
            ELSE UNION {
                    {[path |-> Join(path, Name(files.val.files[i])),
                      dir |-> files.val.files[i].mode.dir,
                      symlink |-> files.val.files[i].mode.symlink]}
                    \cup (IF IsDir(files.val.files[i])
                          THEN NodesUnder(Join(path, Name(files.val.files[i])), fuel - 1)
                          ELSE {}) :
                    i \in 1..Len(files.val.files)}
    IN Listed(ReadDir(repo, fs, path, BothUp))

\* the root of the view and everything nested ReadDir lists under it
ListedNodes ==
    {[path |-> DOT, dir |-> TRUE, symlink |-> FALSE]}
        \cup NodesUnder(DOT, Len(repo["master"]))

\* C27: when NewBillyFuse returns a table, its inodes are one to one the
\* root of the view and the nodes nested ReadDir lists under it: every file,
\* symlink and directory at every depth has exactly one inode, of its kind and
\* at its path, and no inode is at a path ReadDir does not list.
C27_InodesAreListedNodes ==
    (pc = "built" /\ op.err = ErrNil) =>
        /\ {NodeOfInode(id) : id \in DOMAIN inodes} = ListedNodes
        /\ Cardinality(DOMAIN inodes) = Cardinality(ListedNodes)


\* the filesystem calls of the build: the Stat and the ReadDir of the i-th
\* directory taken off the queue, as the backend answered them
StatOfExpanded(i) ==
    Stat(repo, fs, stream.paths[i], UpAt(op.args.down, 2 * i - 1))

ReadDirOfExpanded(i) ==
    ReadDir(repo, fs, stream.paths[i], UpAt(op.args.down, 2 * i))

\* the build went on to its end or is under way: every directory taken off
\* the queue is one ReadDir lists (or the root), none was taken twice, and
\* what waits in the queue are directories ReadDir lists, none a symlink
WalksDirectoriesOnce ==
    /\ \A i \in 1..Len(stream.paths) :
          \E n \in ListedNodes : n.path = stream.paths[i] /\ n.dir /\ ~n.symlink
    /\ \A i, j \in 1..Len(stream.paths) : stream.paths[i] = stream.paths[j] => i = j
    /\ pc = "building" =>
          \A q \in 1..Len(handle.queue) :
              /\ \E n \in ListedNodes :
                    n.path = handle.queue[q].path /\ n.dir /\ ~n.symlink
              /\ \A i \in 1..Len(stream.paths) : stream.paths[i] # handle.queue[q].path
              /\ \A k \in 1..Len(handle.queue) :
                    handle.queue[k].path = handle.queue[q].path => k = q

\* NewBillyFuse returned: with a table when the queue was empty and every Stat
\* and ReadDir of the walk succeeded, every listed directory expanded; with an
\* error and no table when the last Stat or ReadDir of the walk failed
ReturnedTableOrError ==
    pc = "built" =>
        /\ op.err = ErrNil =>
              /\ handle.queue = <<>>
              /\ inodes = handle.inodes
              /\ \A i \in 1..Len(stream.paths) :
                    StatOfExpanded(i).err = ErrNil /\ ReadDirOfExpanded(i).err = ErrNil
              /\ {stream.paths[i] : i \in 1..Len(stream.paths)}
                    = {n.path : n \in {m \in ListedNodes : m.dir}}
        /\ op.err # ErrNil =>
              /\ inodes = NoInodes
              /\ \A i \in 1..(Len(stream.paths) - 1) :
                    StatOfExpanded(i).err = ErrNil /\ ReadDirOfExpanded(i).err = ErrNil
              /\ \/ /\ StatOfExpanded(Len(stream.paths)).err # ErrNil
                    /\ op.err = ErrStatDirectory
                 \/ /\ StatOfExpanded(Len(stream.paths)).err = ErrNil
                    /\ ReadDirOfExpanded(Len(stream.paths)).err # ErrNil
                    /\ op.err = ErrReadDirectory

\* C28: the build queues only directories, takes each directory off the queue
\* and expands it once, never follows a symlink, and ends, the queue empty,
\* with the table; when a Stat or a ReadDir of the walk fails it ends with the
\* error of that call and no table.
C28_BuildTerminates ==
    /\ [](WalksDirectoriesOnce /\ ReturnedTableOrError)
    /\ <>(pc = "built")

\* the build of three directories returned a table after three turns
C28_Witness ==
    /\ pc = "built"
    /\ op.err = ErrNil
    /\ Len(stream.paths) = 3
    /\ handle.queue = <<>>
    /\ \E id \in DOMAIN inodes : inodes[id].info.mode.symlink


\* how many times id occurs in the sequence of ids
Occurrences(children, id) ==
    Cardinality({i \in 1..Len(children) : children[i] = id})

RECURSIVE ReachesRoot(_, _)
\* following ParentId from id comes to the root within fuel steps
ReachesRoot(id, fuel) ==
    \/ id = RootInodeID
    \/ /\ fuel > 0
       /\ id \in DOMAIN inodes
       /\ ReachesRoot(inodes[id].ParentId, fuel - 1)

\* C29: in the table NewBillyFuse returned, the root has ParentId 0 and is in
\* no Children; every other inode has as ParentId a directory inode of the
\* table, is once in the Children of that inode and in no other Children;
\* only directory inodes have Children; following ParentId from any inode
\* comes to the root.
C29_LinksAgree ==
    (pc = "built" /\ op.err = ErrNil) =>
        /\ inodes[RootInodeID].ParentId = 0
        /\ \A p \in DOMAIN inodes :
              /\ Occurrences(inodes[p].Children, RootInodeID) = 0
              /\ inodes[p].Children # <<>> => inodes[p].info.mode.dir
              /\ ReachesRoot(p, Cardinality(DOMAIN inodes))
        /\ \A c \in DOMAIN inodes \ {RootInodeID} :
              /\ inodes[c].ParentId \in DOMAIN inodes
              /\ inodes[inodes[c].ParentId].info.mode.dir
              /\ \A p \in DOMAIN inodes :
                    Occurrences(inodes[p].Children, c)
                        = IF p = inodes[c].ParentId THEN 1 ELSE 0

=============================================================================
